---- MODULE Spec2Model ----
(***************************************************************************)
(* Model of the command_system chain-orchestration engine.                 *)
(*                                                                         *)
(* CommandChain (src/src/chain/command_chain.rs) owns an ordered list of   *)
(* `dyn Command`, a ChainExecutionMode and a rollback_on_error flag.       *)
(* execute() runs the list sequentially or in parallel (join_all) and      *)
(* calls rollback_commands() on failure.  A member command is seen through *)
(* the CommandExecution trait (src/src/command/traits.rs): execute() and   *)
(* rollback() return Result<CommandResult, CommandError>, and the command  *)
(* exposes execution_mode() and supports_rollback().                       *)
(***************************************************************************)
EXTENDS Integers, Sequences, FiniteSets

\* Largest number of commands added to the chain.
MaxCmds == 3

VARIABLES
    commands,           \* CommandChain.commands: sequence of member commands
    mode,               \* CommandChain.mode: ChainExecutionMode
    rollback_on_error,  \* CommandChain.rollback_on_error
    pc,                 \* position of the execute() future
    execution_mode,     \* local of execute(): the effective ExecutionMode
    idx,                \* execute_sequential: position of the `for` loop
    status,             \* per command: state of its execute() future
    outcome,            \* per command: what its execute() returned
    completed,          \* order in which the execute() futures resolved
    results,            \* local `results` of execute_sequential/parallel
    executed_commands,  \* local `executed_commands` (indices into commands)
    rbTodo,             \* rollback_commands: rest of commands.iter().rev()
    rbRunning,          \* commands whose rollback() future is in flight
    rbLog,              \* commands whose rollback() was invoked, in order
    rbFailed,           \* some rollback() returned success=false or Err
    pending,            \* value execute_* returns once the rollback is over
    ret,                \* value returned by execute() to the caller
    timeout_seconds,    \* per command: ShellCommand.timeout_seconds is Some
    orphans,            \* commands whose process outlived their execute()
    cr,                 \* a CommandResult value under construction
    sc,                 \* a ShellCommand under construction, then in use
    run,                \* the ShellCommand whose execute() is in progress
    op,                 \* the ShellCommand operation called on sc
    spc,                \* position of that operation's future
    proc,               \* the OS process spawned by execute_with_timeout
    sret,               \* value returned by the ShellCommand operation
    effects,            \* what the operation did (resolve, spawn)
    variables_file,     \* process_variables: self.variables_file
    cmd,                \* process_variables: the template it is called with
    processed_cmd,      \* process_variables: local `processed_cmd`
    file_vars,          \* process_variables: local `file_vars`
    caps,               \* captures the current pass has still to handle
    ppc,                \* position of the process_variables future
    environ,            \* the process environment
    vfile,              \* what is stored at the path of the variables file
    events,             \* lookups and prompts done so far, in order
    pret,               \* value returned by process_variables
    composite,          \* a CompositeCommand: name, commands, mode
    cop,                \* the CompositeCommand operation in progress
    cpc,                \* position of that operation's future
    cidx,               \* position of its `for` loop over the children
    coutcome,           \* per child: what its execute() returned
    ccompleted,         \* order in which the children's futures resolved
    crunning,           \* children with an execute()/rollback() in flight
    ccalls,             \* children whose execute()/rollback() was invoked
    all_output,         \* local `all_output`: labelled pieces, in order
    cret,               \* value returned by the operation
    visits,             \* calls the Visitor received, in order
    vstack,             \* accept() calls still to be made, next first
    calls,              \* execute() calls on the chain after the first one
    prev                \* value the previous execute() call returned

\* State of a CommandChain and of its execute().
chainVars == <<commands, mode, rollback_on_error, pc, execution_mode, idx,
               status, outcome, completed, results, executed_commands, rbTodo,
               rbRunning, rbLog, rbFailed, pending, ret>>

\* Timeouts of the member commands and the processes they leave behind.
timeoutVars == <<timeout_seconds, orphans>>

\* State of a single ShellCommand and of the operation called on it.
shellVars == <<sc, run, op, spc, proc, sret, effects>>

\* State of one call of ShellCommand::process_variables and of its world.
resolveVars == <<variables_file, cmd, processed_cmd, file_vars, caps, ppc,
                 environ, vfile, events, pret>>

\* State of a CompositeCommand and of the operation called on it.
compositeVars == <<composite, cop, cpc, cidx, coutcome, ccompleted, crunning,
                   ccalls, all_output, cret>>

\* State of a Visitor and of the accept() call that feeds it.
visitVars == <<visits, vstack>>

\* What the caller of CommandChain::execute keeps between two calls.
callVars == <<calls, prev>>

\* State of the components other than the chain, the CommandResult and the
\* single ShellCommand.
moreVars == <<resolveVars, compositeVars, visitVars, callVars>>

\* Everything a CommandChain::execute step leaves alone.
extVars == <<timeoutVars, cr, shellVars, moreVars>>

vars == <<chainVars, extVars>>

----------------------------------------------------------------------------
(* Data types *)

ExecutionMode == {"Sequential", "Parallel"}

ChainExecutionMode == {"Sequential", "Parallel", "Auto"}

\* A member command as the chain sees it through the CommandExecution trait.
CommandSpec == [mode : ExecutionMode, supports_rollback : BOOLEAN]

\* Option<String>: None is the empty tuple, Some(m) the one-element tuple.
None == <<>>

Some(m) == <<m>>

\* CommandError values: the variant and its payload (0 when it has none).
ExecutionError(d) == [kind |-> "ExecutionError", detail |-> d]

TimeoutError == [kind |-> "TimeoutError", detail |-> 0]

RollbackError(d) == [kind |-> "RollbackError", detail |-> d]

IoError(d) == [kind |-> "IoError", detail |-> d]

\* Display of CommandError (#[error(...)] attributes): the fixed text of the
\* variant followed by its payload.
to_string(err) ==
    CASE err.kind = "TimeoutError"  -> <<"Timeout", 0>>
      [] err.kind = "RollbackError" -> <<"RollbackError: ", err.detail>>
      [] err.kind = "IoError"       -> <<"IoError: ", err.detail>>
      [] OTHER                      -> <<"ExecutionError: ", err.detail>>

\* CommandResult::new(name): success=false, empty output, error=None,
\* exit_code=None (the empty String is the empty tuple).
CommandResult_new(name) ==
    [command_name |-> name, success |-> FALSE, output |-> <<>>,
     error |-> None, exit_code |-> None]

\* CommandResult::success(self, output): sets success and output only.
CommandResult_success(self, output) ==
    [self EXCEPT !.success = TRUE, !.output = output]

\* CommandResult::failure(self, error, exit_code)
CommandResult_failure(self, error, exit_code) ==
    [self EXCEPT !.success = FALSE, !.error = Some(error),
                 !.exit_code = exit_code]

Ok(r) == [tag |-> "Ok", result |-> r]

Err(e) == [tag |-> "Err", err |-> e]

Pending == [tag |-> "Pending"]

\* What command i's execute() may return: a successful CommandResult, a
\* failed CommandResult carrying the command's own error text, or an
\* execution error, which the chain only passes on or formats.
ExecOutcomes(i) ==
    { Ok(CommandResult_success(CommandResult_new(i), <<"stdout", i>>)),
      Ok(CommandResult_failure(CommandResult_new(i), <<"stderr", i>>,
                               Some(1))),
      Err(ExecutionError(i)) }

\* What a rollback() may return, as far as rollback_commands distinguishes.
RollbackOutcomes == {"ok", "failed", "error"}

N == Len(commands)

Reverse(s) == [p \in 1..Len(s) |-> s[Len(s) + 1 - p]]

\* ChainResult
ChainResult(rs, ok, e) ==
    [tag |-> "Ok", results |-> rs, success |-> ok, error |-> e]

ChainErr(e) == [tag |-> "Err", err |-> e]

NoReturn == [tag |-> "None"]

----------------------------------------------------------------------------
(* Initial state: a chain built with new / add_command /                   *)
(* with_execution_mode / with_rollback_on_error, before execute().         *)

SeqsUpTo(S, n) == UNION { [1..k -> S] : k \in 0..n }

\* The per-command hints are read by the Auto resolution only; under an
\* explicit chain mode the hints are drawn uniform (all Sequential or all
\* Parallel), under Auto every combination is drawn.
HintsDrawn(m, cmds) ==
    m # "Auto" =>
        \A i, j \in 1..Len(cmds) : cmds[i].mode = cmds[j].mode

\* No member command declares a timeout, no process is left behind.
TimeoutIdle ==
    /\ timeout_seconds = [i \in 1..Len(commands) |-> FALSE]
    /\ orphans = {}

\* No CommandResult is under construction.
ResultIdle == cr = NoReturn

\* No single ShellCommand is in use.
ShellIdle ==
    /\ sc = NoReturn
    /\ run = NoReturn
    /\ op = "none"
    /\ spc = "off"
    /\ proc = NoReturn
    /\ sret = NoReturn
    /\ effects = {}

\* No process_variables call is in progress.
ResolveIdle ==
    /\ variables_file = None
    /\ cmd = <<>>
    /\ processed_cmd = <<>>
    /\ file_vars = <<>>
    /\ caps = <<>>
    /\ ppc = "off"
    /\ environ = <<>>
    /\ vfile = NoReturn
    /\ events = <<>>
    /\ pret = NoReturn

\* No CompositeCommand is in use.
CompositeIdle ==
    /\ composite = NoReturn
    /\ cop = "none"
    /\ cpc = "off"
    /\ cidx = 1
    /\ coutcome = <<>>
    /\ ccompleted = <<>>
    /\ crunning = {}
    /\ ccalls = <<>>
    /\ all_output = <<>>
    /\ cret = NoReturn

\* No accept() call is in progress.
VisitIdle == visits = <<>> /\ vstack = <<>>

\* execute() was not called again.
CallIdle == calls = 0 /\ prev = NoReturn

\* The other components are not in use.
MoreIdle == ResolveIdle /\ CompositeIdle /\ VisitIdle /\ CallIdle

Init ==
    /\ mode \in ChainExecutionMode
    /\ commands \in SeqsUpTo(CommandSpec, MaxCmds)
    /\ HintsDrawn(mode, commands)
    /\ rollback_on_error \in BOOLEAN
    /\ pc = "idle"
    /\ execution_mode = "Sequential"
    /\ idx = 1
    /\ status = [i \in 1..Len(commands) |-> "idle"]
    /\ outcome = [i \in 1..Len(commands) |-> Pending]
    /\ completed = <<>>
    /\ results = <<>>
    /\ executed_commands = <<>>
    /\ rbTodo = <<>>
    /\ rbRunning = {}
    /\ rbLog = <<>>
    /\ rbFailed = FALSE
    /\ pending = NoReturn
    /\ ret = NoReturn
    /\ TimeoutIdle
    /\ ResultIdle
    /\ ShellIdle
    /\ MoreIdle

----------------------------------------------------------------------------
(* CommandChain::execute: mode resolution and dispatch *)

\* Mutant: Auto is Sequential only when every member command declares
\* Sequential (all() instead of any()).
EffectiveModeAll(m, cmds) ==
    CASE m = "Sequential" -> "Sequential"
      [] m = "Parallel"   -> "Parallel"
      [] m = "Auto"       ->
            IF \A i \in 1..Len(cmds) : cmds[i].mode = "Sequential"
            THEN "Sequential"
            ELSE "Parallel"

\* The `match self.mode` of execute(): Auto is Sequential as soon as one
\* member command declares Sequential, Parallel otherwise.
EffectiveMode(m, cmds) ==
    CASE m = "Sequential" -> "Sequential"
      [] m = "Parallel"   -> "Parallel"
      [] m = "Auto"       ->
            IF \E i \in 1..Len(cmds) : cmds[i].mode = "Sequential"
            THEN "Sequential"
            ELSE "Parallel"

\* Mutant: rollback_commands iterates commands.iter(), without rev().
RollbackOrderForward(cmds) == cmds

\* rollback_commands iterates commands.iter().rev().
RollbackOrder(cmds) == Reverse(cmds)

\* Mutant: the rollback pass runs whatever the rollback-on-error flag.
FailWithAlways(value, tracked) ==
    /\ pc' = "rollback"
    /\ rbTodo' = RollbackOrder(tracked)
    /\ pending' = value
    /\ ret' = ret

\* The tail shared by every failure path: `if self.rollback_on_error
\* { self.rollback_commands(&executed_commands).await; }` followed by the
\* return of `value`.
FailWith(value, tracked) ==
    IF rollback_on_error
    THEN /\ pc' = "rollback"
         /\ rbTodo' = RollbackOrder(tracked)
         /\ pending' = value
         /\ ret' = ret
    ELSE /\ pc' = "done"
         /\ ret' = value
         /\ rbTodo' = rbTodo
         /\ pending' = pending

\* Mutant: execute_parallel rejects an empty chain with an error.
ExecuteEmptyIsError ==
    /\ pc = "idle"
    /\ execution_mode' = EffectiveMode(mode, commands)
    /\ IF execution_mode' = "Sequential"
       THEN /\ pc' = "seq"
            /\ ret' = ret
       ELSE IF N = 0
            THEN /\ pc' = "done"
                 /\ ret' = ChainErr(ExecutionError(0))
            ELSE /\ pc' = "par"
                 /\ ret' = ret
    /\ UNCHANGED <<commands, mode, rollback_on_error, idx, status, outcome,
                   completed, results, executed_commands, rbTodo, rbRunning,
                   rbLog, rbFailed, pending>>
    /\ UNCHANGED extVars

\* execute(): resolve the mode and enter execute_sequential or
\* execute_parallel; execute_parallel returns at once on an empty chain.
Execute ==
    /\ pc = "idle"
    /\ execution_mode' = EffectiveMode(mode, commands)
    /\ IF execution_mode' = "Sequential"
       THEN /\ pc' = "seq"
            /\ ret' = ret
       ELSE IF N = 0
            THEN /\ pc' = "done"
                 /\ ret' = ChainResult(<<>>, TRUE, None)
            ELSE /\ pc' = "par"
                 /\ ret' = ret
    /\ UNCHANGED <<commands, mode, rollback_on_error, idx, status, outcome,
                   completed, results, executed_commands, rbTodo, rbRunning,
                   rbLog, rbFailed, pending>>
    /\ UNCHANGED extVars

----------------------------------------------------------------------------
(* CommandChain::execute_sequential *)

\* `executed_commands.push(Arc::clone(command))` in the Ok arm, before the
\* test of result.success; nothing is pushed in the Err arm.
SeqTrack(executed, i, o) ==
    IF o.tag = "Ok" THEN Append(executed, i) ELSE executed

\* Mutant: the failing result is not pushed before the return.
SeqPushSuccessOnly(rs, o) ==
    IF o.tag = "Ok" /\ o.result.success THEN Append(rs, o.result) ELSE rs

\* Mutant: results are pushed at the front of the list.
SeqPushFront(rs, o) ==
    IF o.tag = "Ok" THEN <<o.result>> \o rs ELSE rs

\* `results.push(result)` in both branches of the Ok arm.
SeqPush(rs, o) ==
    IF o.tag = "Ok" THEN Append(rs, o.result) ELSE rs

\* Mutant: an execution error is folded into a failed ChainResult.
SeqFailureAsResult(rs, o) ==
    IF o.tag = "Ok"
    THEN ChainResult(rs, FALSE, o.result.error)
    ELSE ChainResult(rs, FALSE, Some(to_string(o.err)))

\* The value returned when the command's result ends the loop.
SeqFailure(rs, o) ==
    IF o.tag = "Ok"
    THEN ChainResult(rs, FALSE, o.result.error)
    ELSE ChainErr(o.err)

\* The loop reaches the next command and awaits its execute().
SeqStart ==
    /\ pc = "seq"
    /\ idx <= N
    /\ status[idx] = "idle"
    /\ status' = [status EXCEPT ![idx] = "running"]
    /\ UNCHANGED <<commands, mode, rollback_on_error, pc, execution_mode, idx,
                   outcome, completed, results, executed_commands, rbTodo,
                   rbRunning, rbLog, rbFailed, pending, ret>>
    /\ UNCHANGED extVars

\* The `match command.execute().await` of the loop body, for the value o.
SeqResolve(o) ==
    /\ status' = [status EXCEPT ![idx] = "finished"]
    /\ outcome' = [outcome EXCEPT ![idx] = o]
    /\ completed' = Append(completed, idx)
    /\ executed_commands' = SeqTrack(executed_commands, idx, o)
    /\ results' = SeqPush(results, o)
    /\ IF o.tag = "Ok" /\ o.result.success
       THEN /\ idx' = idx + 1
            /\ UNCHANGED <<pc, rbTodo, pending, ret>>
       ELSE /\ idx' = idx
            /\ FailWith(SeqFailure(results', o), executed_commands')
    /\ UNCHANGED <<commands, mode, rollback_on_error, execution_mode,
                   rbRunning, rbLog, rbFailed>>

\* The awaited execute() resolves; the `match` on its value.
SeqFinish ==
    /\ pc = "seq"
    /\ idx <= N
    /\ status[idx] = "running"
    /\ \E o \in ExecOutcomes(idx) : SeqResolve(o)
    /\ UNCHANGED extVars

\* The awaited execute() of a command that declares a timeout resolves with
\* TimeoutError while its process is running: tokio::time::timeout drops the
\* cmd.output() future, and the child, spawned without kill_on_drop, goes on.
SeqTimeout ==
    /\ pc = "seq"
    /\ idx <= N
    /\ status[idx] = "running"
    /\ timeout_seconds[idx]
    /\ SeqResolve(Err(TimeoutError))
    /\ orphans' = orphans \cup {idx}
    /\ UNCHANGED <<timeout_seconds, cr, shellVars, moreVars>>

\* A process left behind by a timeout exits.
OrphanExit ==
    /\ \E i \in orphans : orphans' = orphans \ {i}
    /\ UNCHANGED <<chainVars, timeout_seconds, cr, shellVars, moreVars>>

\* The loop is exhausted: Ok(ChainResult { results, success: true, None }).
SeqReturn ==
    /\ pc = "seq"
    /\ idx > N
    /\ ret' = ChainResult(results, TRUE, None)
    /\ pc' = "done"
    /\ UNCHANGED <<commands, mode, rollback_on_error, execution_mode, idx,
                   status, outcome, completed, results, executed_commands,
                   rbTodo, rbRunning, rbLog, rbFailed, pending>>
    /\ UNCHANGED extVars

----------------------------------------------------------------------------
(* CommandChain::execute_parallel *)

\* future::join_all resolves when every member future has resolved.
JoinAllReady(st) == \A i \in DOMAIN st : st[i] = "finished"

\* Mutant: the pairs are gathered as the futures resolve (an unordered
\* collector), in completion order.
command_results_by_completion(out, done) ==
    [p \in 1..Len(done) |-> <<done[p], out[done[p]]>>]

\* The output of join_all: one (command, result) pair per future, in the
\* order of the input iterator.
command_results(out, done) == [i \in DOMAIN out |-> <<i, out[i]>>]

\* The locals of the result loop before its first iteration.
CollectInit ==
    [results |-> <<>>, has_errors |-> FALSE, first_error |-> None,
     executed_commands |-> <<>>]

\* Mutant: an execution error is recorded as a failed result of its command.
CollectStepPushError(acc, command, result) ==
    IF result.tag = "Ok"
    THEN [acc EXCEPT
            !.executed_commands = Append(@, command),
            !.results = Append(@, result.result),
            !.has_errors = @ \/ ~result.result.success,
            !.first_error =
                IF ~result.result.success /\ ~acc.has_errors
                THEN result.result.error ELSE @]
    ELSE [acc EXCEPT
            !.results = Append(@, CommandResult_failure(
                                    CommandResult_new(command),
                                    to_string(result.err), None)),
            !.has_errors = TRUE,
            !.first_error =
                IF ~acc.has_errors THEN Some(to_string(result.err)) ELSE @]

\* Mutant: the `!has_errors` guards are missing, the last error wins.
CollectStepLastError(acc, command, result) ==
    IF result.tag = "Ok"
    THEN [acc EXCEPT
            !.executed_commands = Append(@, command),
            !.results = Append(@, result.result),
            !.has_errors = @ \/ ~result.result.success,
            !.first_error =
                IF ~result.result.success THEN result.result.error ELSE @]
    ELSE [acc EXCEPT
            !.has_errors = TRUE,
            !.first_error = Some(to_string(result.err))]

\* One iteration of `for (command, result) in command_results`.
CollectStep(acc, command, result) ==
    IF result.tag = "Ok"
    THEN [acc EXCEPT
            !.executed_commands = Append(@, command),
            !.results = Append(@, result.result),
            !.has_errors = @ \/ ~result.result.success,
            !.first_error =
                IF ~result.result.success /\ ~acc.has_errors
                THEN result.result.error ELSE @]
    ELSE [acc EXCEPT
            !.has_errors = TRUE,
            !.first_error =
                IF ~acc.has_errors THEN Some(to_string(result.err)) ELSE @]

\* The whole result loop over the first k pairs.
RECURSIVE Collect(_, _)
Collect(pairs, k) ==
    IF k = 0
    THEN CollectInit
    ELSE CollectStep(Collect(pairs, k - 1), pairs[k][1], pairs[k][2])

\* join_all polls its futures in input order: the next future is started.
ParStart ==
    /\ pc = "par"
    /\ \E i \in 1..N :
        /\ status[i] = "idle"
        /\ \A j \in 1..(i - 1) : status[j] # "idle"
        /\ status' = [status EXCEPT ![i] = "running"]
    /\ UNCHANGED <<commands, mode, rollback_on_error, pc, execution_mode, idx,
                   outcome, completed, results, executed_commands, rbTodo,
                   rbRunning, rbLog, rbFailed, pending, ret>>
    /\ UNCHANGED extVars

\* One of the running futures resolves with the value of cmd.execute().
ParFinish ==
    /\ pc = "par"
    /\ \E i \in 1..N :
        /\ status[i] = "running"
        /\ \E o \in ExecOutcomes(i) :
            /\ status' = [status EXCEPT ![i] = "finished"]
            /\ outcome' = [outcome EXCEPT ![i] = o]
            /\ completed' = Append(completed, i)
    /\ UNCHANGED <<commands, mode, rollback_on_error, pc, execution_mode, idx,
                   results, executed_commands, rbTodo, rbRunning, rbLog,
                   rbFailed, pending, ret>>
    /\ UNCHANGED extVars

\* Mutant: try_join_all instead of join_all, the first execution error ends
\* the wait and is returned while the siblings are still in flight.
ParCollectShortCircuit ==
    /\ pc = "par"
    /\ \E i \in 1..N :
        /\ outcome[i].tag = "Err"
        /\ ret' = ChainErr(outcome[i].err)
    /\ pc' = "done"
    /\ UNCHANGED <<commands, mode, rollback_on_error, execution_mode, idx,
                   status, outcome, completed, results, executed_commands,
                   rbTodo, rbRunning, rbLog, rbFailed, pending>>
    /\ UNCHANGED extVars

\* join_all has resolved: the result loop, then the rollback or the return.
ParCollect ==
    /\ pc = "par"
    /\ JoinAllReady(status)
    /\ LET pairs == command_results(outcome, completed)
           acc == Collect(pairs, Len(pairs))
           value == ChainResult(acc.results, ~acc.has_errors, acc.first_error)
       IN /\ results' = acc.results
          /\ executed_commands' = acc.executed_commands
          /\ IF acc.has_errors
             THEN FailWith(value, acc.executed_commands)
             ELSE /\ pc' = "done"
                  /\ ret' = value
                  /\ UNCHANGED <<rbTodo, pending>>
    /\ UNCHANGED <<commands, mode, rollback_on_error, execution_mode, idx,
                   status, outcome, completed, rbRunning, rbLog, rbFailed>>
    /\ UNCHANGED extVars

----------------------------------------------------------------------------
(* CommandChain::rollback_commands *)

\* Mutant: the rollbacks are started together (join_all over the list)
\* instead of being awaited one by one.
RollbackStartConcurrent ==
    /\ pc = "rollback"
    /\ \E p \in 1..Len(rbTodo) :
        /\ commands[rbTodo[p]].supports_rollback
        /\ rbTodo[p] \notin rbRunning
        /\ \A q \in 1..Len(rbLog) : rbLog[q] # rbTodo[p]
        /\ rbRunning' = rbRunning \cup {rbTodo[p]}
        /\ rbLog' = Append(rbLog, rbTodo[p])
    /\ UNCHANGED <<commands, mode, rollback_on_error, pc, execution_mode, idx,
                   status, outcome, completed, results, executed_commands,
                   rbTodo, rbFailed, pending, ret>>
    /\ UNCHANGED extVars

\* The arm of `match command.rollback().await` taken for the value o:
\* success, failed result or critical error, each of them only logged.
RollbackArm(o) ==
    IF o.tag = "Err" THEN "error"
    ELSE IF o.result.success THEN "ok" ELSE "failed"

\* The loop reaches a command that supports rollback and awaits rollback().
RollbackStart ==
    /\ pc = "rollback"
    /\ rbTodo # <<>>
    /\ rbRunning = {}
    /\ commands[Head(rbTodo)].supports_rollback
    /\ rbRunning' = {Head(rbTodo)}
    /\ rbLog' = Append(rbLog, Head(rbTodo))
    /\ UNCHANGED <<commands, mode, rollback_on_error, pc, execution_mode, idx,
                   status, outcome, completed, results, executed_commands,
                   rbTodo, rbFailed, pending, ret>>
    /\ UNCHANGED extVars

\* Mutant: a rollback that fails or errors ends the rollback pass.
RollbackFinishAbort ==
    /\ pc = "rollback"
    /\ rbRunning # {}
    /\ \E r \in RollbackOutcomes :
        /\ rbFailed' = (rbFailed \/ r # "ok")
        /\ rbTodo' = IF r = "ok" THEN Tail(rbTodo) ELSE <<>>
    /\ rbRunning' = {}
    /\ UNCHANGED <<commands, mode, rollback_on_error, pc, execution_mode, idx,
                   status, outcome, completed, results, executed_commands,
                   rbLog, pending, ret>>
    /\ UNCHANGED extVars

\* The awaited rollback() resolves; every arm of the match only logs.
RollbackFinish ==
    /\ pc = "rollback"
    /\ rbRunning # {}
    /\ \E r \in RollbackOutcomes :
        rbFailed' = (rbFailed \/ r # "ok")
    /\ rbRunning' = {}
    /\ rbTodo' = Tail(rbTodo)
    /\ UNCHANGED <<commands, mode, rollback_on_error, pc, execution_mode, idx,
                   status, outcome, completed, results, executed_commands,
                   rbLog, pending, ret>>
    /\ UNCHANGED extVars

\* The loop reaches a command without rollback support: a warning only.
RollbackSkip ==
    /\ pc = "rollback"
    /\ rbTodo # <<>>
    /\ rbRunning = {}
    /\ ~commands[Head(rbTodo)].supports_rollback
    /\ rbTodo' = Tail(rbTodo)
    /\ UNCHANGED <<commands, mode, rollback_on_error, pc, execution_mode, idx,
                   status, outcome, completed, results, executed_commands,
                   rbRunning, rbLog, rbFailed, pending, ret>>
    /\ UNCHANGED extVars

\* rollback_commands returns; the caller returns the value it had prepared.
RollbackReturn ==
    /\ pc = "rollback"
    /\ rbTodo = <<>>
    /\ rbRunning = {}
    /\ ret' = pending
    /\ pc' = "done"
    /\ UNCHANGED <<commands, mode, rollback_on_error, execution_mode, idx,
                   status, outcome, completed, results, executed_commands,
                   rbTodo, rbRunning, rbLog, rbFailed, pending>>
    /\ UNCHANGED extVars

----------------------------------------------------------------------------

Next ==
    \/ Execute
    \/ SeqStart
    \/ SeqFinish
    \/ SeqReturn
    \/ ParStart
    \/ ParFinish
    \/ ParCollect
    \/ RollbackStart
    \/ RollbackFinish
    \/ RollbackSkip
    \/ RollbackReturn

Spec == Init /\ [][Next]_vars

----------------------------------------------------------------------------
(* A chain whose execute() is called again after it returned *)

\* Largest number of commands of a chain that is executed again.
MaxAgainCmds == 2

\* Largest number of execute() calls after the first one.
MaxRepeats == 1

InitAgain ==
    /\ Init
    /\ Len(commands) <= MaxAgainCmds

\* Mutant: the result list survives from the previous call.
ExecuteAgainKeepResults ==
    /\ pc = "done"
    /\ calls < MaxRepeats
    /\ calls' = calls + 1
    /\ prev' = ret
    /\ execution_mode' = EffectiveMode(mode, commands)
    /\ idx' = 1
    /\ status' = [i \in 1..N |-> "idle"]
    /\ outcome' = [i \in 1..N |-> Pending]
    /\ completed' = <<>>
    /\ results' = results
    /\ executed_commands' = <<>>
    /\ rbTodo' = <<>>
    /\ rbRunning' = {}
    /\ rbLog' = <<>>
    /\ rbFailed' = FALSE
    /\ pending' = NoReturn
    /\ IF execution_mode' = "Sequential"
       THEN pc' = "seq" /\ ret' = NoReturn
       ELSE IF N = 0
            THEN pc' = "done" /\ ret' = ChainResult(<<>>, TRUE, None)
            ELSE pc' = "par" /\ ret' = NoReturn
    /\ UNCHANGED <<commands, mode, rollback_on_error>>
    /\ UNCHANGED <<timeoutVars, cr, shellVars, resolveVars, compositeVars,
                   visitVars>>

\* execute(&self) is called on a chain whose previous execute() returned:
\* the mode is resolved again and execute_sequential / execute_parallel
\* start with new locals (results, executed_commands, futures); the chain
\* has no field that execute() writes.
ExecuteAgain ==
    /\ pc = "done"
    /\ calls < MaxRepeats
    /\ calls' = calls + 1
    /\ prev' = ret
    /\ execution_mode' = EffectiveMode(mode, commands)
    /\ idx' = 1
    /\ status' = [i \in 1..N |-> "idle"]
    /\ outcome' = [i \in 1..N |-> Pending]
    /\ completed' = <<>>
    /\ results' = <<>>
    /\ executed_commands' = <<>>
    /\ rbTodo' = <<>>
    /\ rbRunning' = {}
    /\ rbLog' = <<>>
    /\ rbFailed' = FALSE
    /\ pending' = NoReturn
    /\ IF execution_mode' = "Sequential"
       THEN pc' = "seq" /\ ret' = NoReturn
       ELSE IF N = 0
            THEN pc' = "done" /\ ret' = ChainResult(<<>>, TRUE, None)
            ELSE pc' = "par" /\ ret' = NoReturn
    /\ UNCHANGED <<commands, mode, rollback_on_error>>
    /\ UNCHANGED <<timeoutVars, cr, shellVars, resolveVars, compositeVars,
                   visitVars>>

NextAgain ==
    \/ Next
    \/ ExecuteAgain

SpecAgain == InitAgain /\ [][NextAgain]_vars

----------------------------------------------------------------------------
(* Sequential chains of ShellCommands that may declare a timeout *)

InitTimeout ==
    /\ mode \in {"Sequential", "Auto"}
    /\ commands \in SeqsUpTo(CommandSpec, MaxCmds)
    /\ \A i \in 1..Len(commands) : commands[i].mode = "Sequential"
    /\ Len(commands) > 0
    /\ rollback_on_error \in BOOLEAN
    /\ pc = "idle"
    /\ execution_mode = "Sequential"
    /\ idx = 1
    /\ status = [i \in 1..Len(commands) |-> "idle"]
    /\ outcome = [i \in 1..Len(commands) |-> Pending]
    /\ completed = <<>>
    /\ results = <<>>
    /\ executed_commands = <<>>
    /\ rbTodo = <<>>
    /\ rbRunning = {}
    /\ rbLog = <<>>
    /\ rbFailed = FALSE
    /\ pending = NoReturn
    /\ ret = NoReturn
    /\ timeout_seconds \in [1..Len(commands) -> BOOLEAN]
    /\ orphans = {}
    /\ ResultIdle
    /\ ShellIdle
    /\ MoreIdle

NextTimeout ==
    \/ Execute
    \/ SeqStart
    \/ SeqFinish
    \/ SeqTimeout
    \/ SeqReturn
    \/ RollbackStart
    \/ RollbackFinish
    \/ RollbackSkip
    \/ RollbackReturn
    \/ OrphanExit

SpecTimeout == InitTimeout /\ [][NextTimeout]_vars

----------------------------------------------------------------------------
(* Termination of execute(): chains of every mode whose commands may declare
   a timeout, under the fairness of the runtime *)

\* Largest chain of the termination check.
MaxLiveCmds == 1

InitLive ==
    /\ mode \in ChainExecutionMode
    /\ commands \in SeqsUpTo(CommandSpec, MaxLiveCmds)
    /\ HintsDrawn(mode, commands)
    /\ rollback_on_error \in BOOLEAN
    /\ pc = "idle"
    /\ execution_mode = "Sequential"
    /\ idx = 1
    /\ status = [i \in 1..Len(commands) |-> "idle"]
    /\ outcome = [i \in 1..Len(commands) |-> Pending]
    /\ completed = <<>>
    /\ results = <<>>
    /\ executed_commands = <<>>
    /\ rbTodo = <<>>
    /\ rbRunning = {}
    /\ rbLog = <<>>
    /\ rbFailed = FALSE
    /\ pending = NoReturn
    /\ ret = NoReturn
    /\ timeout_seconds \in [1..Len(commands) -> BOOLEAN]
    /\ orphans = {}
    /\ ResultIdle
    /\ ShellIdle
    /\ MoreIdle

\* Mutant: the declared timeout is not applied, cmd.output() is awaited
\* without the timer.
ParTimeoutIgnored ==
    /\ FALSE
    /\ UNCHANGED vars

\* A member future of join_all whose command declares a timeout resolves
\* with TimeoutError while its process is running; the process goes on.
ParTimeout ==
    /\ pc = "par"
    /\ \E i \in 1..N :
        /\ status[i] = "running"
        /\ timeout_seconds[i]
        /\ status' = [status EXCEPT ![i] = "finished"]
        /\ outcome' = [outcome EXCEPT ![i] = Err(TimeoutError)]
        /\ completed' = Append(completed, i)
        /\ orphans' = orphans \cup {i}
    /\ UNCHANGED <<commands, mode, rollback_on_error, pc, execution_mode, idx,
                   results, executed_commands, rbTodo, rbRunning, rbLog,
                   rbFailed, pending, ret>>
    /\ UNCHANGED <<timeout_seconds, cr, shellVars, moreVars>>

NextLive ==
    \/ NextTimeout
    \/ ParStart
    \/ ParFinish
    \/ ParTimeout
    \/ ParCollect

\* The task running execute() is polled whenever it can make a step that
\* waits for no process and no timer.
Scheduled ==
    \/ SeqStart
    \/ SeqReturn
    \/ ParStart
    \/ ParCollect
    \/ RollbackStart
    \/ RollbackSkip
    \/ RollbackReturn

\* The process of a forward command that declares no timeout exits.
UntimedProcessExits ==
    \/ SeqFinish /\ ~timeout_seconds[idx]
    \/ /\ ParFinish
       /\ \E i \in 1..N :
            ~timeout_seconds[i] /\ status[i] = "running"
                /\ status'[i] = "finished"

\* The timer of tokio::time::timeout fires when the process has not exited.
TimerFires == SeqTimeout \/ ParTimeout

\* The scheduling the termination of execute() relies on: the runtime polls
\* ready tasks and fires timers; untimed forward processes and rollback
\* processes exit. Nothing is assumed of the process of a command that
\* declares a timeout, nor of a process left behind by a timeout.
LiveFairness ==
    /\ WF_vars(Scheduled)
    /\ WF_vars(UntimedProcessExits)
    /\ WF_vars(TimerFires)
    /\ WF_vars(RollbackFinish)

SpecLive == InitLive /\ [][NextLive]_vars /\ LiveFairness

----------------------------------------------------------------------------
(* CommandExecutor (src/src/command/executor.rs): the second chain-execution *)
(* strategy.  Its `mode` field is held in execution_mode, its `commands`     *)
(* argument in commands.                                                     *)

InitExecutor ==
    /\ mode = "Sequential"
    /\ commands \in SeqsUpTo(CommandSpec, MaxCmds)
    /\ \A i \in 1..Len(commands) : commands[i].mode = "Sequential"
    /\ rollback_on_error = FALSE
    /\ pc = "xidle"
    /\ execution_mode \in ExecutionMode
    /\ idx = 1
    /\ status = [i \in 1..Len(commands) |-> "idle"]
    /\ outcome = [i \in 1..Len(commands) |-> Pending]
    /\ completed = <<>>
    /\ results = <<>>
    /\ executed_commands = <<>>
    /\ rbTodo = <<>>
    /\ rbRunning = {}
    /\ rbLog = <<>>
    /\ rbFailed = FALSE
    /\ pending = NoReturn
    /\ ret = NoReturn
    /\ TimeoutIdle
    /\ ResultIdle
    /\ ShellIdle
    /\ MoreIdle

\* CommandExecutor::execute: `match self.mode`.
XExecute ==
    /\ pc = "xidle"
    /\ pc' = IF execution_mode = "Sequential" THEN "xseq" ELSE "xpar"
    /\ UNCHANGED <<commands, mode, rollback_on_error, execution_mode, idx,
                   status, outcome, completed, results, executed_commands,
                   rbTodo, rbRunning, rbLog, rbFailed, pending, ret>>
    /\ UNCHANGED extVars

\* execute_sequential: the loop reaches the next command and awaits it.
XSeqStart ==
    /\ pc = "xseq"
    /\ idx <= N
    /\ status[idx] = "idle"
    /\ status' = [status EXCEPT ![idx] = "running"]
    /\ UNCHANGED <<commands, mode, rollback_on_error, pc, execution_mode, idx,
                   outcome, completed, results, executed_commands, rbTodo,
                   rbRunning, rbLog, rbFailed, pending, ret>>
    /\ UNCHANGED extVars

\* execute_sequential: `let result = command.execute().await?;
\* results.push(result);` whatever result.success.
XSeqFinish ==
    /\ pc = "xseq"
    /\ idx <= N
    /\ status[idx] = "running"
    /\ \E o \in ExecOutcomes(idx) :
        /\ status' = [status EXCEPT ![idx] = "finished"]
        /\ outcome' = [outcome EXCEPT ![idx] = o]
        /\ completed' = Append(completed, idx)
        /\ IF o.tag = "Ok"
           THEN /\ results' = Append(results, o.result)
                /\ idx' = idx + 1
                /\ UNCHANGED <<pc, ret>>
           ELSE /\ ret' = ChainErr(o.err)
                /\ pc' = "done"
                /\ UNCHANGED <<results, idx>>
    /\ UNCHANGED <<commands, mode, rollback_on_error, execution_mode,
                   executed_commands, rbTodo, rbRunning, rbLog, rbFailed,
                   pending>>
    /\ UNCHANGED extVars

\* execute_sequential: Ok(ChainResult { success: true, results, error: None }).
XSeqReturn ==
    /\ pc = "xseq"
    /\ idx > N
    /\ ret' = ChainResult(results, TRUE, None)
    /\ pc' = "done"
    /\ UNCHANGED <<commands, mode, rollback_on_error, execution_mode, idx,
                   status, outcome, completed, results, executed_commands,
                   rbTodo, rbRunning, rbLog, rbFailed, pending>>
    /\ UNCHANGED extVars

\* execute_parallel: try_join_all polls its futures in input order.
XParStart ==
    /\ pc = "xpar"
    /\ \E i \in 1..N :
        /\ status[i] = "idle"
        /\ \A j \in 1..(i - 1) : status[j] # "idle"
        /\ status' = [status EXCEPT ![i] = "running"]
    /\ UNCHANGED <<commands, mode, rollback_on_error, pc, execution_mode, idx,
                   outcome, completed, results, executed_commands, rbTodo,
                   rbRunning, rbLog, rbFailed, pending, ret>>
    /\ UNCHANGED extVars

\* execute_parallel: a future resolves; try_join_all resolves at once with
\* the error of the first future that resolves to Err (the `?`).
XParFinish ==
    /\ pc = "xpar"
    /\ \E i \in 1..N :
        /\ status[i] = "running"
        /\ \E o \in ExecOutcomes(i) :
            /\ status' = [status EXCEPT ![i] = "finished"]
            /\ outcome' = [outcome EXCEPT ![i] = o]
            /\ completed' = Append(completed, i)
            /\ IF o.tag = "Err"
               THEN /\ ret' = ChainErr(o.err)
                    /\ pc' = "done"
               ELSE UNCHANGED <<pc, ret>>
    /\ UNCHANGED <<commands, mode, rollback_on_error, execution_mode, idx,
                   results, executed_commands, rbTodo, rbRunning, rbLog,
                   rbFailed, pending>>
    /\ UNCHANGED extVars

\* execute_parallel: every future resolved to Ok; the results in input order.
XParReturn ==
    /\ pc = "xpar"
    /\ JoinAllReady(status)
    /\ results' = [i \in 1..N |-> outcome[i].result]
    /\ ret' = ChainResult(results', TRUE, None)
    /\ pc' = "done"
    /\ UNCHANGED <<commands, mode, rollback_on_error, execution_mode, idx,
                   status, outcome, completed, executed_commands, rbTodo,
                   rbRunning, rbLog, rbFailed, pending>>
    /\ UNCHANGED extVars

NextExecutor ==
    \/ XExecute
    \/ XSeqStart
    \/ XSeqFinish
    \/ XSeqReturn
    \/ XParStart
    \/ XParFinish
    \/ XParReturn

SpecExecutor == InitExecutor /\ [][NextExecutor]_vars

----------------------------------------------------------------------------
(* CommandResult (src/src/command/traits.rs): new, success and failure      *)
(* applied in any order to one value.                                       *)

\* Texts passed as `output`: the empty String and captured outputs.
Outputs == { <<>> } \cup { <<"stdout", i>> : i \in 1..MaxCmds }

\* Texts passed as `error`.
Errors == { <<"stderr", i>> : i \in 1..MaxCmds }

\* Values passed as `exit_code`.
ExitCodes == { None, Some(1), Some(2) }

\* No CommandChain is in use.
ChainOff ==
    /\ commands = <<>>
    /\ mode = "Sequential"
    /\ rollback_on_error = FALSE
    /\ pc = "off"
    /\ execution_mode = "Sequential"
    /\ idx = 1
    /\ status = <<>>
    /\ outcome = <<>>
    /\ completed = <<>>
    /\ results = <<>>
    /\ executed_commands = <<>>
    /\ rbTodo = <<>>
    /\ rbRunning = {}
    /\ rbLog = <<>>
    /\ rbFailed = FALSE
    /\ pending = NoReturn
    /\ ret = NoReturn

InitResult ==
    /\ cr = CommandResult_new(1)
    /\ ChainOff
    /\ TimeoutIdle
    /\ ShellIdle
    /\ MoreIdle

\* CommandResult::new
CRNew ==
    /\ \E name \in 1..MaxCmds : cr' = CommandResult_new(name)
    /\ UNCHANGED <<chainVars, timeoutVars, shellVars, moreVars>>

\* CommandResult::success
CRSuccess ==
    /\ \E output \in Outputs : cr' = CommandResult_success(cr, output)
    /\ UNCHANGED <<chainVars, timeoutVars, shellVars, moreVars>>

\* CommandResult::failure
CRFailure ==
    /\ \E error \in Errors, exit_code \in ExitCodes :
        cr' = CommandResult_failure(cr, error, exit_code)
    /\ UNCHANGED <<chainVars, timeoutVars, shellVars, moreVars>>

NextResult ==
    \/ CRNew
    \/ CRSuccess
    \/ CRFailure

SpecResult == InitResult /\ [][NextResult]_vars

----------------------------------------------------------------------------
(* ShellCommand (src/src/command/shell_command.rs): construction, then one   *)
(* call of execute() or rollback().                                          *)

\* ShellCommand::new
ShellCommand_new(name, command) ==
    [name |-> name, command |-> command, working_dir |-> None,
     env_vars |-> {}, mode |-> "Sequential", supports_rollback |-> FALSE,
     rollback_command |-> None, timeout_seconds |-> None,
     variables_file |-> None]

\* ShellCommand::with_working_dir
with_working_dir(self, dir) == [self EXCEPT !.working_dir = Some(dir)]

\* ShellCommand::with_env_var: HashMap::insert replaces the value of the key.
with_env_var(self, key, value) ==
    [self EXCEPT !.env_vars =
        { kv \in @ : kv[1] # key } \cup { <<key, value>> }]

\* ShellCommand::with_execution_mode
with_execution_mode(self, m) == [self EXCEPT !.mode = m]

\* Mutant: with_rollback stores the template and forgets the flag.
with_rollback_no_flag(self, rollback_command) ==
    [self EXCEPT !.rollback_command = Some(rollback_command)]

\* ShellCommand::with_rollback
with_rollback(self, rollback_command) ==
    [self EXCEPT !.supports_rollback = TRUE,
                 !.rollback_command = Some(rollback_command)]

\* ShellCommand::with_timeout
with_timeout(self, seconds) == [self EXCEPT !.timeout_seconds = Some(seconds)]

\* ShellCommand::with_variables_file
with_variables_file(self, file_path) ==
    [self EXCEPT !.variables_file = Some(file_path)]

\* ShellCommand::supports_rollback
supports_rollback(self) == self.supports_rollback

\* Mutant: the rollback command does not receive the variables file.
RollbackCommandOfNoFile(self, rollback_cmd) ==
    [ShellCommand_new(Append(self.name, "_rollback"), rollback_cmd) EXCEPT
        !.working_dir = self.working_dir,
        !.env_vars = self.env_vars,
        !.mode = self.mode]

\* The command rollback() builds and executes: new("<name>_rollback",
\* rollback_cmd) with the working directory, the environment, the mode and
\* the variables file of self.
RollbackCommandOf(self, rollback_cmd) ==
    [ShellCommand_new(Append(self.name, "_rollback"), rollback_cmd) EXCEPT
        !.working_dir = self.working_dir,
        !.env_vars = self.env_vars,
        !.mode = self.mode,
        !.variables_file = self.variables_file]

\* Values the construction operations are called with.
Dirs == {"/work"}

EnvKeys == {"KEY"}

EnvValues == {"v1", "v2"}

RollbackTemplates == {"undo"}

TimeoutValues == {1}

VariableFiles == {"vars.json"}

\* How a process ends: exit code (None when killed by a signal), captured
\* stdout and stderr (the empty tuple is the empty String).
ExitStatuses ==
    [code : {Some(0), Some(1), None},
     stdout : { <<"stdout", 1>> },
     stderr : { <<>>, <<"stderr", 1>> }]

NoProcess == [st |-> "none", status |-> NoReturn]

\* Mutant: the error is the captured stderr even when it is empty.
ProcessResultRawStderr(name, exit_status) ==
    IF exit_status.code = Some(0)
    THEN CommandResult_success(CommandResult_new(name), exit_status.stdout)
    ELSE CommandResult_failure(CommandResult_new(name), exit_status.stderr,
                               exit_status.code)

\* Lines 269-285 of execute_with_timeout: the CommandResult of a process
\* that ended with `exit_status`.
ProcessResult(name, exit_status) ==
    IF exit_status.code = Some(0)
    THEN CommandResult_success(CommandResult_new(name), exit_status.stdout)
    ELSE CommandResult_failure(
            CommandResult_new(name),
            IF exit_status.stderr = <<>>
            THEN <<"exit code",
                   IF exit_status.code = None THEN -1 ELSE exit_status.code[1]>>
            ELSE exit_status.stderr,
            exit_status.code)

InitShell ==
    /\ sc = ShellCommand_new(<<"c">>, "cmd")
    /\ run = NoReturn
    /\ op = "none"
    /\ spc = "build"
    /\ proc = NoProcess
    /\ sret = NoReturn
    /\ effects = {}
    /\ ChainOff
    /\ TimeoutIdle
    /\ ResultIdle
    /\ MoreIdle

\* One of the with_* construction operations is applied to the command.
ShBuild ==
    /\ spc = "build"
    /\ \/ \E dir \in Dirs : sc' = with_working_dir(sc, dir)
       \/ \E key \in EnvKeys, value \in EnvValues :
            sc' = with_env_var(sc, key, value)
       \/ \E m \in ExecutionMode : sc' = with_execution_mode(sc, m)
       \/ \E r \in RollbackTemplates : sc' = with_rollback(sc, r)
       \/ \E t \in TimeoutValues : sc' = with_timeout(sc, t)
       \/ \E f \in VariableFiles : sc' = with_variables_file(sc, f)
    /\ UNCHANGED <<run, op, spc, proc, sret, effects>>
    /\ UNCHANGED <<chainVars, timeoutVars, cr, moreVars>>

\* execute() is called: execute_with_timeout starts on the command itself.
ShExecute ==
    /\ spc = "build"
    /\ op' = "execute"
    /\ run' = sc
    /\ spc' = "resolve"
    /\ UNCHANGED <<sc, proc, sret, effects>>
    /\ UNCHANGED <<chainVars, timeoutVars, cr, moreVars>>

\* Mutant: rollback() without a template runs the forward command.
ShRollbackUnchecked ==
    /\ spc = "build"
    /\ op' = "rollback"
    /\ run' = RollbackCommandOf(sc,
                IF sc.rollback_command = None
                THEN sc.command ELSE sc.rollback_command[1])
    /\ spc' = "resolve"
    /\ UNCHANGED <<sc, proc, sret, effects>>
    /\ UNCHANGED <<chainVars, timeoutVars, cr, moreVars>>

\* rollback() is called: RollbackError without rollback support or without
\* a rollback command, otherwise execute() of the command it builds.
ShRollback ==
    /\ spc = "build"
    /\ op' = "rollback"
    /\ IF ~sc.supports_rollback
       THEN /\ sret' = Err(RollbackError(1))
            /\ spc' = "done"
            /\ run' = run
       ELSE IF sc.rollback_command = None
       THEN /\ sret' = Err(RollbackError(2))
            /\ spc' = "done"
            /\ run' = run
       ELSE /\ run' = RollbackCommandOf(sc, sc.rollback_command[1])
            /\ spc' = "resolve"
            /\ sret' = sret
    /\ UNCHANGED <<sc, proc, effects>>
    /\ UNCHANGED <<chainVars, timeoutVars, cr, moreVars>>

\* process_variables and shlex::split: the template is resolved, or the
\* declared variables file cannot be loaded, or the resolved string cannot
\* be split (or is empty).
ShResolve ==
    /\ spc = "resolve"
    /\ effects' = effects \cup {"resolve"}
    /\ \/ /\ spc' = "spawn"
          /\ sret' = sret
       \/ /\ run.variables_file # None
          /\ sret' = Err(ExecutionError(1))
          /\ spc' = "done"
       \/ /\ sret' = Err(ExecutionError(2))
          /\ spc' = "done"
    /\ UNCHANGED <<sc, run, op, proc>>
    /\ UNCHANGED <<chainVars, timeoutVars, cr, moreVars>>

\* cmd.output(): the process is spawned, or the spawn fails with an I/O error.
ShSpawn ==
    /\ spc = "spawn"
    /\ \/ /\ proc' = [st |-> "running", status |-> NoReturn]
          /\ effects' = effects \cup {"spawn"}
          /\ spc' = "await"
          /\ sret' = sret
       \/ /\ sret' = Err(IoError(1))
          /\ spc' = "done"
          /\ UNCHANGED <<proc, effects>>
    /\ UNCHANGED <<sc, run, op>>
    /\ UNCHANGED <<chainVars, timeoutVars, cr, moreVars>>

\* The process ends, awaited or left behind by a timeout.
ShProcExit ==
    /\ proc.st \in {"running", "orphaned"}
    /\ \E exit_status \in ExitStatuses :
        proc' = [st |-> IF proc.st = "running" THEN "exited" ELSE "reaped",
                 status |-> exit_status]
    /\ UNCHANGED <<sc, run, op, spc, sret, effects>>
    /\ UNCHANGED <<chainVars, timeoutVars, cr, moreVars>>

\* The output future resolves before the timeout (or without one): the
\* CommandResult of the exit status.
ShComplete ==
    /\ spc = "await"
    /\ proc.st = "exited"
    /\ sret' = Ok(ProcessResult(run.name, proc.status))
    /\ spc' = "done"
    /\ UNCHANGED <<sc, run, op, proc, effects>>
    /\ UNCHANGED <<chainVars, timeoutVars, cr, moreVars>>

\* Mutant: on expiry a failed CommandResult is returned.
ShTimeoutPartialResult ==
    /\ spc = "await"
    /\ run.timeout_seconds # None
    /\ proc.st = "running"
    /\ sret' = Ok(CommandResult_failure(CommandResult_new(run.name),
                                        <<"Timeout", 0>>, None))
    /\ spc' = "done"
    /\ proc' = [proc EXCEPT !.st = "orphaned"]
    /\ UNCHANGED <<sc, run, op, effects>>
    /\ UNCHANGED <<chainVars, timeoutVars, cr, moreVars>>

\* tokio::time::timeout elapses while the output future is pending:
\* Err(TimeoutError); the dropped child is not killed.
ShTimeout ==
    /\ spc = "await"
    /\ run.timeout_seconds # None
    /\ proc.st = "running"
    /\ sret' = Err(TimeoutError)
    /\ spc' = "done"
    /\ proc' = [proc EXCEPT !.st = "orphaned"]
    /\ UNCHANGED <<sc, run, op, effects>>
    /\ UNCHANGED <<chainVars, timeoutVars, cr, moreVars>>

NextShell ==
    \/ ShBuild
    \/ ShExecute
    \/ ShRollback
    \/ ShResolve
    \/ ShSpawn
    \/ ShProcExit
    \/ ShComplete
    \/ ShTimeout

SpecShell == InitShell /\ [][NextShell]_vars

----------------------------------------------------------------------------
(* ShellCommand::process_variables (shell_command.rs:111-208).  A string is  *)
(* a sequence of one-character strings.                                      *)

\* Largest number of pieces a template is made of.
MaxPieces == 2

\* First position >= k of s that holds a brace, 0 when there is none.
RECURSIVE NextBrace(_, _)
NextBrace(s, k) ==
    IF k > Len(s) THEN 0
    ELSE IF s[k] \in {"{", "}"} THEN k
    ELSE NextBrace(s, k + 1)

\* Mutant: the capture group may be empty ([^{}]* for [^{}]+).
MatchEndEmptyGroup(s, i, class) ==
    IF i + 1 > Len(s) \/ s[i] # "{" THEN 0
    ELSE LET body == IF class = "interactive" THEN i + 1 ELSE i + 2
             j == NextBrace(s, body)
         IN  IF /\ class = "file" => s[i + 1] = "#"
                /\ class = "env" => s[i + 1] = "$"
                /\ class = "interactive" => s[i + 1] \notin {"$", "#"}
                /\ j >= body
                /\ s[j] = "}"
             THEN j ELSE 0

\* End of the match of a pattern at position i of s, 0 when it does not
\* match there.  FILE_VAR_PATTERN \{#([^{}]+)\}, ENV_VAR_PATTERN
\* \{\$([^{}]+)\}, INTERACTIVE_VAR_PATTERN \{([^$#{}][^{}]*)\}.
MatchEnd(s, i, class) ==
    IF i + 1 > Len(s) \/ s[i] # "{" THEN 0
    ELSE LET body == IF class = "interactive" THEN i + 1 ELSE i + 2
             j == NextBrace(s, body)
         IN  IF /\ class = "file" => s[i + 1] = "#"
                /\ class = "env" => s[i + 1] = "$"
                /\ class = "interactive" => s[i + 1] \notin {"$", "#"}
                /\ j > body
                /\ s[j] = "}"
             THEN j ELSE 0

\* Start of the capture group 1 of a match that starts at i.
GroupStart(i, class) == IF class = "interactive" THEN i + 1 ELSE i + 2

\* Regex::captures_iter: the non-overlapping matches of the pattern in s,
\* leftmost first; text is cap[0] and name is cap[1].
RECURSIVE CapturesFrom(_, _, _)
CapturesFrom(s, i, class) ==
    IF i > Len(s) THEN <<>>
    ELSE LET j == MatchEnd(s, i, class)
         IN  IF j = 0 THEN CapturesFrom(s, i + 1, class)
             ELSE <<[class |-> class,
                     text |-> SubSeq(s, i, j),
                     name |-> SubSeq(s, GroupStart(i, class), j - 1)]>>
                  \o CapturesFrom(s, j + 1, class)

captures_iter(s, class) == CapturesFrom(s, 1, class)

\* str::replace: every non-overlapping occurrence of `from`, left to right.
RECURSIVE ReplaceFrom(_, _, _, _)
ReplaceFrom(s, i, from, to) ==
    IF i > Len(s) THEN <<>>
    ELSE IF i + Len(from) - 1 <= Len(s)
            /\ SubSeq(s, i, i + Len(from) - 1) = from
         THEN to \o ReplaceFrom(s, i + Len(from), from, to)
         ELSE <<s[i]>> \o ReplaceFrom(s, i + 1, from, to)

replace(s, from, to) == ReplaceFrom(s, 1, from, to)

\* Variable names of the modelled environment and variables file.
Names == { <<"A">>, <<"B">> }

\* Pieces the templates are made of.
Pieces ==
    { <<"x">>, <<"{">>, <<"}">>,
      <<"{", "$", "A", "}">>, <<"{", "#", "A", "}">>, <<"{", "A", "}">>,
      <<"{", "$", "B", "}">> }

RECURSIVE Concat(_)
Concat(ss) == IF ss = <<>> THEN <<>> ELSE Head(ss) \o Concat(Tail(ss))

Templates == { Concat(ss) : ss \in SeqsUpTo(Pieces, MaxPieces) }

\* Values of the environment: A is unset, plain, or holds the text of an
\* interactive placeholder; B is unset or plain.
Environments ==
    { [n \in Names |-> IF n = <<"A">> THEN a ELSE b] :
        a \in {None, Some(<<"v">>), Some(<<"{", "B", "}">>)},
        b \in {None, Some(<<"w">>)} }

\* What the path of the variables file holds: nothing readable, text that is
\* not JSON, or an object (A absent, plain, or the text of an env
\* placeholder).
FileContents ==
    { [kind |-> "unreadable", vars |-> <<>>],
      [kind |-> "invalid", vars |-> <<>>],
      [kind |-> "object", vars |-> <<>>] }
    \cup { [kind |-> "object", vars |-> [n \in { <<"A">> } |-> a]] :
            a \in { <<"f">>, <<"{", "$", "B", "}">> } }

\* Lines a user types at a prompt (after trim()).
PromptValues == { <<"p">>, <<"{", "B", "}">> }

InitResolve ==
    /\ variables_file \in {None, Some("vars.json")}
    /\ vfile \in FileContents
    /\ variables_file = None => vfile.kind = "unreadable"
    /\ environ \in Environments
    /\ cmd \in Templates
    /\ processed_cmd = cmd
    /\ file_vars = <<>>
    /\ caps = <<>>
    /\ ppc = "load"
    /\ events = <<>>
    /\ pret = NoReturn
    /\ ChainOff
    /\ TimeoutIdle
    /\ ResultIdle
    /\ ShellIdle
    /\ CompositeIdle
    /\ VisitIdle
    /\ CallIdle

\* Frame of a process_variables step.
ResolveFrame ==
    UNCHANGED <<variables_file, cmd, environ, vfile,
                chainVars, timeoutVars, cr, shellVars, compositeVars,
                visitVars, callVars>>

\* Lines 162-168 and the start of the file loop: load_variables_from_file
\* when a file is declared (File::open / read_to_string / serde_json fail
\* with ExecutionError), then the captures of FILE_VAR_PATTERN in cmd.
PvLoad ==
    /\ ppc = "load"
    /\ IF variables_file # None /\ vfile.kind # "object"
       THEN /\ pret' = Err(ExecutionError(
                            IF vfile.kind = "unreadable" THEN 1 ELSE 3))
            /\ ppc' = "done"
            /\ UNCHANGED <<file_vars, caps>>
       ELSE /\ file_vars' =
                IF variables_file # None THEN vfile.vars ELSE file_vars
            /\ caps' = captures_iter(cmd, "file")
            /\ ppc' = "file"
            /\ pret' = pret
    /\ UNCHANGED <<processed_cmd, events>>
    /\ ResolveFrame

\* processed_cmd = processed_cmd.replace(&cap[0], value), logged.
Substitute(cap, value, source) ==
    /\ processed_cmd' = replace(processed_cmd, cap.text, value)
    /\ events' = Append(events,
                    [cap |-> cap, source |-> source, value |-> value,
                     before |-> processed_cmd])
    /\ caps' = Tail(caps)
    /\ UNCHANGED <<ppc, pret>>

\* prompt_for_variable: the trimmed line read from stdin, or IoError.
Prompt(cap) ==
    \/ \E value \in PromptValues : Substitute(cap, value, "prompt")
    \/ /\ pret' = Err(IoError(1))
       /\ ppc' = "done"
       /\ UNCHANGED <<processed_cmd, events, caps>>

\* One iteration of the loop over FILE_VAR_PATTERN (lines 171-186).
PvFileStep ==
    /\ ppc = "file"
    /\ caps # <<>>
    /\ LET cap == Head(caps)
       IN  IF variables_file # None /\ cap.name \in DOMAIN file_vars
           THEN Substitute(cap, file_vars[cap.name], "file")
           ELSE Prompt(cap)
    /\ file_vars' = file_vars
    /\ ResolveFrame

\* The file loop is over: the captures of ENV_VAR_PATTERN in a clone of
\* processed_cmd (line 189).
PvFileEnd ==
    /\ ppc = "file"
    /\ caps = <<>>
    /\ caps' = captures_iter(processed_cmd, "env")
    /\ ppc' = "env"
    /\ UNCHANGED <<processed_cmd, file_vars, events, pret>>
    /\ ResolveFrame

\* Mutant: the environment is never consulted.
PvEnvStepAlwaysPrompt ==
    /\ ppc = "env"
    /\ caps # <<>>
    /\ Prompt(Head(caps))
    /\ file_vars' = file_vars
    /\ ResolveFrame

\* env::var of a name the environment does not hold is Err.
env_var(name) ==
    IF name \in DOMAIN environ THEN environ[name] ELSE None

\* One iteration of the loop over ENV_VAR_PATTERN (lines 189-198).
PvEnvStep ==
    /\ ppc = "env"
    /\ caps # <<>>
    /\ LET cap == Head(caps)
       IN  IF env_var(cap.name) # None
           THEN Substitute(cap, env_var(cap.name)[1], "env")
           ELSE Prompt(cap)
    /\ file_vars' = file_vars
    /\ ResolveFrame

\* The env loop is over: the captures of INTERACTIVE_VAR_PATTERN in a clone
\* of processed_cmd (line 201).
PvEnvEnd ==
    /\ ppc = "env"
    /\ caps = <<>>
    /\ caps' = captures_iter(processed_cmd, "interactive")
    /\ ppc' = "interactive"
    /\ UNCHANGED <<processed_cmd, file_vars, events, pret>>
    /\ ResolveFrame

\* One iteration of the loop over INTERACTIVE_VAR_PATTERN (lines 201-205).
PvInteractiveStep ==
    /\ ppc = "interactive"
    /\ caps # <<>>
    /\ Prompt(Head(caps))
    /\ file_vars' = file_vars
    /\ ResolveFrame

\* Ok(processed_cmd) (line 207).
PvReturn ==
    /\ ppc = "interactive"
    /\ caps = <<>>
    /\ pret' = Ok(processed_cmd)
    /\ ppc' = "done"
    /\ UNCHANGED <<processed_cmd, file_vars, caps, events>>
    /\ ResolveFrame

NextResolve ==
    \/ PvLoad
    \/ PvFileStep
    \/ PvFileEnd
    \/ PvEnvStep
    \/ PvEnvEnd
    \/ PvInteractiveStep
    \/ PvReturn

SpecResolve == InitResolve /\ [][NextResolve]_vars

----------------------------------------------------------------------------
(* CompositeCommand (src/src/command/composite_command.rs): execute() and    *)
(* rollback() over its children.                                             *)

\* Largest number of children added to a composite.
MaxChildren == 3

\* CompositeCommand::new
CompositeCommand_new(name) ==
    [name |-> name, commands |-> <<>>, mode |-> "Sequential"]

\* CompositeCommand::add_command
add_command(self, command) ==
    [self EXCEPT !.commands = Append(@, command)]

\* CompositeCommand::with_execution_mode
composite_with_execution_mode(self, m) == [self EXCEPT !.mode = m]

\* A command is a CompositeCommand (it has children) or a ShellCommand.
IsComposite(command) == "commands" \in DOMAIN command

\* Mutant: a composite supports rollback when all its children do.
RECURSIVE command_supports_rollback_all(_)
command_supports_rollback_all(command) ==
    IF IsComposite(command)
    THEN \A k \in 1..Len(command.commands) :
            command_supports_rollback_all(command.commands[k])
    ELSE supports_rollback(command)

\* Command::supports_rollback through dyn dispatch: the flag of a
\* ShellCommand, any() over the children of a CompositeCommand.
RECURSIVE command_supports_rollback(_)
command_supports_rollback(command) ==
    IF IsComposite(command)
    THEN \E k \in 1..Len(command.commands) :
            command_supports_rollback(command.commands[k])
    ELSE supports_rollback(command)

\* ShellCommands of a given name, with or without a rollback command.
ShellCommandsNamed(name) ==
    { ShellCommand_new(name, "cmd"),
      with_rollback(ShellCommand_new(name, "cmd"), "undo") }

\* The k-th child handed to add_command: a ShellCommand named k.
ShellChildren(k) == ShellCommandsNamed(<<k>>)

\* Composites with up to n ShellCommand children.
RECURSIVE FlatComposites(_)
FlatComposites(n) ==
    IF n = 0 THEN { CompositeCommand_new(<<"g">>) }
    ELSE FlatComposites(n - 1) \cup
         { add_command(c, child) :
            c \in { x \in FlatComposites(n - 1) : Len(x.commands) = n - 1 },
            child \in ShellChildren(n) }

\* What execute() of child i returns: success with its stdout, failure with
\* its stderr and exit code i, or an error (no result, no exit code).
ChildOutcomes(i) ==
    { Ok(CommandResult_success(CommandResult_new(<<i>>), <<"stdout", i>>)),
      Ok(CommandResult_failure(CommandResult_new(<<i>>), <<"stderr", i>>,
                               Some(i))),
      Err(ExecutionError(i)) }

\* error.unwrap_or_else(|| "unknown error")
unwrap_or_unknown(error) == IF error = None THEN <<"unknown">> ELSE error[1]

NC == Len(composite.commands)

InitComposite ==
    /\ composite \in { composite_with_execution_mode(c, m) :
                        c \in FlatComposites(MaxChildren),
                        m \in ExecutionMode }
    /\ cop = "none"
    /\ cpc = "idle"
    /\ cidx = 1
    /\ coutcome = [i \in 1..Len(composite.commands) |-> Pending]
    /\ ccompleted = <<>>
    /\ crunning = {}
    /\ ccalls = <<>>
    /\ all_output = <<>>
    /\ cret = NoReturn
    /\ ChainOff
    /\ TimeoutIdle
    /\ ResultIdle
    /\ ShellIdle
    /\ ResolveIdle
    /\ VisitIdle
    /\ CallIdle

\* Frame of a CompositeCommand step.
CompositeFrame ==
    UNCHANGED <<composite, chainVars, timeoutVars, cr, shellVars,
                resolveVars, visitVars, callVars>>

\* execute(): dispatch on the mode; the parallel branch creates the futures
\* of all children and awaits join_all.
CExecute ==
    /\ cpc = "idle"
    /\ cop' = "execute"
    /\ IF composite.mode = "Sequential"
       THEN /\ cpc' = "seq"
            /\ UNCHANGED <<crunning, ccalls>>
       ELSE /\ cpc' = "par"
            /\ crunning' = 1..NC
            /\ ccalls' = [i \in 1..NC |-> i]
    /\ UNCHANGED <<cidx, coutcome, ccompleted, all_output, cret>>
    /\ CompositeFrame

\* execute_sequential: command.execute() of the next child is called.
CSeqStart ==
    /\ cpc = "seq"
    /\ crunning = {}
    /\ cidx <= NC
    /\ crunning' = {cidx}
    /\ ccalls' = Append(ccalls, cidx)
    /\ UNCHANGED <<cop, cpc, cidx, coutcome, ccompleted, all_output, cret>>
    /\ CompositeFrame

\* Mutant of SeqChildDone: a failed child is recorded and the loop goes on.
SeqChildDoneContinue(i, o) ==
    /\ all_output' = Append(all_output,
                        <<composite.commands[i].name,
                          IF o.tag = "Ok" THEN o.result.output ELSE <<>> >>)
    /\ cidx' = cidx + 1
    /\ UNCHANGED <<cpc, cret>>

\* The match on command.execute().await of execute_sequential (lines 52-79).
SeqChildDone(i, o) ==
    IF o.tag = "Ok" /\ o.result.success
    THEN /\ all_output' = Append(all_output,
                            <<composite.commands[i].name, o.result.output>>)
         /\ cidx' = cidx + 1
         /\ UNCHANGED <<cpc, cret>>
    ELSE /\ cret' = Ok(CommandResult_failure(
                        CommandResult_new(composite.name),
                        IF o.tag = "Ok"
                        THEN <<"subcommand failed", composite.commands[i].name,
                               unwrap_or_unknown(o.result.error)>>
                        ELSE <<"subcommand error", composite.commands[i].name,
                               to_string(o.err)>>,
                        IF o.tag = "Ok" THEN o.result.exit_code ELSE None))
         /\ cpc' = "done"
         /\ UNCHANGED <<all_output, cidx>>

\* The child's execute() returns.
CSeqFinish ==
    /\ cpc = "seq"
    /\ crunning = {cidx}
    /\ \E o \in ChildOutcomes(cidx) :
        /\ coutcome' = [coutcome EXCEPT ![cidx] = o]
        /\ SeqChildDone(cidx, o)
    /\ ccompleted' = Append(ccompleted, cidx)
    /\ crunning' = {}
    /\ UNCHANGED <<cop, ccalls>>
    /\ CompositeFrame

\* The loop is over: Ok(result.success(all_output)).
CSeqReturn ==
    /\ cpc = "seq"
    /\ crunning = {}
    /\ cidx > NC
    /\ cret' = Ok(CommandResult_success(CommandResult_new(composite.name),
                                        all_output))
    /\ cpc' = "done"
    /\ UNCHANGED <<cop, cidx, coutcome, ccompleted, crunning, ccalls,
                   all_output>>
    /\ CompositeFrame

\* One child's future resolves while join_all is pending.
CParFinish ==
    /\ cpc = "par"
    /\ \E i \in crunning :
        /\ \E o \in ChildOutcomes(i) : coutcome' = [coutcome EXCEPT ![i] = o]
        /\ crunning' = crunning \ {i}
        /\ ccompleted' = Append(ccompleted, i)
    /\ UNCHANGED <<cop, cpc, cidx, ccalls, all_output, cret>>
    /\ CompositeFrame

\* Locals of execute_parallel before its loop over the results.
ParLocals ==
    [all_output |-> <<>>, has_errors |-> FALSE, first_error |-> None,
     first_exit_code |-> None]

\* Mutant: every failing child overwrites the recorded error.
ParStepLastError(acc, i, res) ==
    IF res.tag = "Ok"
    THEN [all_output |-> Append(acc.all_output,
            <<composite.commands[i].name,
              IF res.result.success THEN res.result.output
              ELSE unwrap_or_unknown(res.result.error)>>),
          has_errors |-> acc.has_errors \/ ~res.result.success,
          first_error |-> IF ~res.result.success
                          THEN res.result.error ELSE acc.first_error,
          first_exit_code |-> IF ~res.result.success
                              THEN res.result.exit_code
                              ELSE acc.first_exit_code]
    ELSE [all_output |-> Append(acc.all_output,
            <<composite.commands[i].name, <<"error", to_string(res.err)>> >>),
          has_errors |-> TRUE,
          first_error |-> Some(to_string(res.err)),
          first_exit_code |-> None]

\* One iteration of the loop over results.into_iter().enumerate()
\* (lines 102-132).
ParStep(acc, i, res) ==
    IF res.tag = "Ok"
    THEN LET first == ~res.result.success /\ ~acc.has_errors
         IN  [all_output |-> Append(acc.all_output,
                <<composite.commands[i].name,
                  IF res.result.success THEN res.result.output
                  ELSE unwrap_or_unknown(res.result.error)>>),
              has_errors |-> acc.has_errors \/ first,
              first_error |-> IF first THEN res.result.error
                              ELSE acc.first_error,
              first_exit_code |-> IF first THEN res.result.exit_code
                                  ELSE acc.first_exit_code]
    ELSE [all_output |-> Append(acc.all_output,
            <<composite.commands[i].name, <<"error", to_string(res.err)>> >>),
          has_errors |-> TRUE,
          first_error |-> IF ~acc.has_errors THEN Some(to_string(res.err))
                          ELSE acc.first_error,
          first_exit_code |-> acc.first_exit_code]

\* The loop over the first k results, in the order of the children.
RECURSIVE ParLoop(_, _)
ParLoop(out, k) ==
    IF k = 0 THEN ParLocals ELSE ParStep(ParLoop(out, k - 1), k, out[k])

\* Mutant of CParCollect: the error of the first errored child is returned.
CParCollectPropagate ==
    /\ cpc = "par"
    /\ crunning = {}
    /\ LET acc == ParLoop(coutcome, NC)
           errored == { i \in 1..NC : coutcome[i].tag = "Err" }
       IN  /\ all_output' = acc.all_output
           /\ cret' = IF errored # {}
                      THEN coutcome[CHOOSE i \in errored :
                                        \A j \in errored : i <= j]
                      ELSE Ok(IF acc.has_errors
                              THEN CommandResult_failure(
                                     CommandResult_new(composite.name),
                                     <<"some subcommands failed",
                                       unwrap_or_unknown(acc.first_error)>>,
                                     acc.first_exit_code)
                              ELSE CommandResult_success(
                                     CommandResult_new(composite.name),
                                     acc.all_output))
    /\ cpc' = "done"
    /\ UNCHANGED <<cop, cidx, coutcome, ccompleted, crunning, ccalls>>
    /\ CompositeFrame

\* join_all resolved: the loop over the results and the returned value
\* (lines 95-144).
CParCollect ==
    /\ cpc = "par"
    /\ crunning = {}
    /\ LET acc == ParLoop(coutcome, NC)
       IN  /\ all_output' = acc.all_output
           /\ cret' = Ok(IF acc.has_errors
                         THEN CommandResult_failure(
                                CommandResult_new(composite.name),
                                <<"some subcommands failed",
                                  unwrap_or_unknown(acc.first_error)>>,
                                acc.first_exit_code)
                         ELSE CommandResult_success(
                                CommandResult_new(composite.name),
                                acc.all_output))
    /\ cpc' = "done"
    /\ UNCHANGED <<cop, cidx, coutcome, ccompleted, crunning, ccalls>>
    /\ CompositeFrame

\* What rollback() of a child returns.
ChildRollbackOutcomes(i) ==
    { Ok(CommandResult_success(CommandResult_new(<<i, "_rollback">>),
                               <<"stdout", i>>)),
      Ok(CommandResult_failure(CommandResult_new(<<i, "_rollback">>),
                               <<"stderr", i>>, Some(i))),
      Err(RollbackError(i)) }

\* rollback() is called, on a composite that was executed or not:
\* rollback_commands starts its loop over commands.iter().rev().
CRollback ==
    /\ cpc \in {"idle", "done"}
    /\ cop # "rollback"
    /\ cop' = "rollback"
    /\ cpc' = "rb"
    /\ cidx' = NC
    /\ ccalls' = <<>>
    /\ all_output' = <<>>
    /\ cret' = NoReturn
    /\ UNCHANGED <<coutcome, ccompleted, crunning>>
    /\ CompositeFrame

\* Mutant: only the children that were executed are rolled back.
CRbStartExecutedOnly ==
    /\ cpc = "rb"
    /\ crunning = {}
    /\ cidx >= 1
    /\ IF /\ command_supports_rollback(composite.commands[cidx])
          /\ coutcome[cidx] # Pending
       THEN /\ crunning' = {cidx}
            /\ ccalls' = Append(ccalls, cidx)
            /\ UNCHANGED <<cidx, all_output>>
       ELSE /\ all_output' = Append(all_output,
                    <<composite.commands[cidx].name, <<"not supported">> >>)
            /\ cidx' = cidx - 1
            /\ UNCHANGED <<crunning, ccalls>>
    /\ UNCHANGED <<cop, cpc, coutcome, ccompleted, cret>>
    /\ CompositeFrame

\* The next child of the reversed iteration: command.rollback() is called
\* when it supports rollback, a note is recorded otherwise.
CRbStart ==
    /\ cpc = "rb"
    /\ crunning = {}
    /\ cidx >= 1
    /\ IF command_supports_rollback(composite.commands[cidx])
       THEN /\ crunning' = {cidx}
            /\ ccalls' = Append(ccalls, cidx)
            /\ UNCHANGED <<cidx, all_output>>
       ELSE /\ all_output' = Append(all_output,
                    <<composite.commands[cidx].name, <<"not supported">> >>)
            /\ cidx' = cidx - 1
            /\ UNCHANGED <<crunning, ccalls>>
    /\ UNCHANGED <<cop, cpc, coutcome, ccompleted, cret>>
    /\ CompositeFrame

\* The child's rollback() returns: its output, error text or error is
\* recorded and the loop goes on.
CRbFinish ==
    /\ cpc = "rb"
    /\ crunning = {cidx}
    /\ \E o \in ChildRollbackOutcomes(cidx) :
        all_output' = Append(all_output,
            <<composite.commands[cidx].name,
              IF o.tag = "Err" THEN <<"error", to_string(o.err)>>
              ELSE IF o.result.success THEN o.result.output
              ELSE unwrap_or_unknown(o.result.error)>>)
    /\ crunning' = {}
    /\ cidx' = cidx - 1
    /\ UNCHANGED <<cop, cpc, coutcome, ccompleted, ccalls, cret>>
    /\ CompositeFrame

\* Mutant: the composite's rollback fails when a child's rollback failed or
\* errored.
CRbReturnFailure ==
    /\ cpc = "rb"
    /\ crunning = {}
    /\ cidx = 0
    /\ cret' = IF \E k \in 1..Len(all_output) :
                    all_output[k][2][1] \in {"error", "stderr"}
               THEN Ok(CommandResult_failure(
                        CommandResult_new(Append(composite.name, "_rollback")),
                        all_output, None))
               ELSE Ok(CommandResult_success(
                        CommandResult_new(Append(composite.name, "_rollback")),
                        all_output))
    /\ cpc' = "done"
    /\ UNCHANGED <<cop, cidx, coutcome, ccompleted, crunning, ccalls,
                   all_output>>
    /\ CompositeFrame

\* The loop is over: Ok(result.success(all_output)).
CRbReturn ==
    /\ cpc = "rb"
    /\ crunning = {}
    /\ cidx = 0
    /\ cret' = Ok(CommandResult_success(
                    CommandResult_new(Append(composite.name, "_rollback")),
                    all_output))
    /\ cpc' = "done"
    /\ UNCHANGED <<cop, cidx, coutcome, ccompleted, crunning, ccalls,
                   all_output>>
    /\ CompositeFrame

NextComposite ==
    \/ CExecute
    \/ CSeqStart
    \/ CSeqFinish
    \/ CSeqReturn
    \/ CParFinish
    \/ CParCollect
    \/ CRollback
    \/ CRbStart
    \/ CRbFinish
    \/ CRbReturn

SpecComposite == InitComposite /\ [][NextComposite]_vars

----------------------------------------------------------------------------
(* Command trees: add_command and Command::accept                            *)
(* (composite_command.rs:35-38, 226-235; shell_command.rs:342-346).          *)

\* Composites named `name` handed to add_command: empty, or with
\* ShellCommand children named name.1, name.2, the last one with a rollback
\* command.
NestedComposites(name) ==
    LET plain == ShellCommand_new(Append(name, 1), "cmd")
        undo1 == with_rollback(ShellCommand_new(Append(name, 1), "cmd"),
                               "undo")
        undo2 == with_rollback(ShellCommand_new(Append(name, 2), "cmd"),
                               "undo")
        empty == CompositeCommand_new(name)
    IN  { empty,
          add_command(empty, plain),
          add_command(empty, undo1),
          add_command(add_command(empty, plain), undo2) }

\* The k-th child handed to add_command on the root: a ShellCommand or a
\* composite of ShellCommands.
TreeChildren(k) == ShellChildren(k) \cup NestedComposites(<<k>>)

InitTree ==
    /\ composite = CompositeCommand_new(<<"g">>)
    /\ cop = "none"
    /\ cpc = "build"
    /\ cidx = 1
    /\ coutcome = <<>>
    /\ ccompleted = <<>>
    /\ crunning = {}
    /\ ccalls = <<>>
    /\ all_output = <<>>
    /\ cret = NoReturn
    /\ VisitIdle
    /\ CallIdle
    /\ ChainOff
    /\ TimeoutIdle
    /\ ResultIdle
    /\ ShellIdle
    /\ ResolveIdle

\* Frame of a step on the tree.
TreeFrame ==
    UNCHANGED <<cidx, coutcome, ccompleted, crunning, ccalls, all_output,
                cret, chainVars, timeoutVars, cr, shellVars, resolveVars,
                callVars>>

\* add_command(child) on the root composite.
TAddCommand ==
    /\ cpc = "build"
    /\ Len(composite.commands) < MaxChildren
    /\ \E child \in TreeChildren(Len(composite.commands) + 1) :
        composite' = add_command(composite, child)
    /\ UNCHANGED <<cop, cpc, visitVars>>
    /\ TreeFrame

\* accept(visitor) is called on the root.
TAccept ==
    /\ cpc = "build"
    /\ cop' = "accept"
    /\ cpc' = "visit"
    /\ vstack' = <<composite>>
    /\ UNCHANGED <<composite, visits>>
    /\ TreeFrame

\* The Visitor method a command hands itself to.
VisitOf(command) ==
    [method |-> IF IsComposite(command) THEN "visit_composite_command"
                ELSE "visit_shell_command",
     command |-> command]

\* Mutant: a composite propagates accept to its children before it calls
\* the visitor for itself.
TVisitChildrenFirst ==
    /\ cpc = "visit"
    /\ vstack # <<>>
    /\ LET command == Head(vstack)
       IN  IF IsComposite(command) /\ command.commands # <<>>
           THEN /\ vstack' = command.commands
                             \o <<[command EXCEPT !.commands = <<>>]>>
                             \o Tail(vstack)
                /\ visits' = visits
           ELSE /\ visits' = Append(visits, VisitOf(command))
                /\ vstack' = Tail(vstack)
    /\ UNCHANGED <<composite, cop, cpc>>
    /\ TreeFrame

\* The next accept() call: the command calls the visitor method of its
\* variant; a composite then calls accept on each child, in order.
TVisit ==
    /\ cpc = "visit"
    /\ vstack # <<>>
    /\ LET command == Head(vstack)
       IN  /\ visits' = Append(visits, VisitOf(command))
           /\ vstack' = (IF IsComposite(command) THEN command.commands
                         ELSE <<>>) \o Tail(vstack)
    /\ UNCHANGED <<composite, cop, cpc>>
    /\ TreeFrame

\* accept() of the root returns.
TAcceptReturn ==
    /\ cpc = "visit"
    /\ vstack = <<>>
    /\ cpc' = "done"
    /\ UNCHANGED <<composite, cop, visitVars>>
    /\ TreeFrame

NextTree ==
    \/ TAddCommand
    \/ TAccept
    \/ TVisit
    \/ TAcceptReturn

SpecTree == InitTree /\ [][NextTree]_vars

----------------------------------------------------------------------------
(* Vocabulary of the properties *)

IsOkSuccess(o) == o.tag = "Ok" /\ o.result.success

IsFailure(o) == o.tag = "Ok" /\ ~o.result.success

IsError(o) == o.tag = "Err"

\* Commands that ended with a business failure or an execution error.
Failing == { i \in 1..N : IsFailure(outcome[i]) \/ IsError(outcome[i]) }

\* The error text a failing command reports.
MessageOf(o) == IF o.tag = "Ok" THEN o.result.error ELSE Some(to_string(o.err))

Min(S) == CHOOSE x \in S : \A y \in S : x <= y

\* Position of x in the sequence s (x occurs once).
PosIn(s, x) == CHOOSE p \in 1..Len(s) : s[p] = x

IsPrefix(s, t) == Len(s) <= Len(t) /\ \A p \in 1..Len(s) : s[p] = t[p]

Range(s) == { s[p] : p \in 1..Len(s) }

\* The rollback-supporting commands among 1..k-1, from k-1 down to 1.
RevSupporting(k) ==
    SelectSeq([p \in 1..(k - 1) |-> k - p],
              LAMBDA i : commands[i].supports_rollback)

\* The results of commands 1..k, in input order.
ResultsUpTo(k) == [i \in 1..k |-> outcome[i].result]

Sequential == pc # "idle" /\ execution_mode = "Sequential"

Parallel == pc # "idle" /\ execution_mode = "Parallel"

----------------------------------------------------------------------------
(* Sequential chains *)

\* C1: in a Sequential chain whose command k is the first to report a
\* business failure, commands k+1..N are never executed and execute()
\* returns a ChainResult with success=false, the results of commands 1..k in
\* input order and the error message of command k.
C1_SeqBusinessFailure ==
    \A k \in 1..N :
        (Sequential /\ IsFailure(outcome[k])) =>
            /\ \A j \in (k + 1)..N : status[j] = "idle" /\ outcome[j] = Pending
            /\ pc = "done" =>
                ret = ChainResult(ResultsUpTo(k), FALSE, outcome[k].result.error)

C1_Witness ==
    /\ Sequential /\ pc = "done" /\ N = 3
    /\ IsFailure(outcome[2])
    /\ ret.tag = "Ok" /\ Len(ret.results) = 2

\* C2: in a Sequential rollback-enabled chain whose command k fails, the
\* rollbacks of the rollback-supporting commands among 1..k-1 are invoked
\* from k-1 down to 1, at most one rollback is in flight at any time, and
\* all of them are invoked and finished when execute() returns.
C2_SeqRollbackReverse ==
    \A k \in 1..N :
        (Sequential /\ rollback_on_error
            /\ (IsFailure(outcome[k]) \/ IsError(outcome[k]))) =>
            /\ Cardinality(rbRunning) <= 1
            /\ IsPrefix(SelectSeq(rbLog, LAMBDA i : i < k), RevSupporting(k))
            /\ ret.tag # "None" =>
                /\ rbRunning = {}
                /\ SelectSeq(rbLog, LAMBDA i : i < k) = RevSupporting(k)

C2_Witness ==
    /\ Sequential /\ rollback_on_error /\ pc = "done" /\ N = 3
    /\ IsFailure(outcome[3]) \/ IsError(outcome[3])
    /\ SelectSeq(rbLog, LAMBDA i : i < 3) = <<2, 1>>

\* C3: in a Sequential rollback-enabled chain the failing command k is never
\* rolled back, whether it failed with a business failure or with an
\* execution error.
C3_FailingNeverRolledBack ==
    \A k \in 1..N :
        (Sequential /\ rollback_on_error
            /\ (IsFailure(outcome[k]) \/ IsError(outcome[k]))) =>
            k \notin Range(rbLog)

\* C4: a Sequential chain whose N commands all succeed returns a ChainResult
\* with success=true, no error and the N results in input order, and no
\* rollback is invoked.
C4_SeqAllSucceed ==
    (Sequential /\ pc = "done" /\ \A i \in 1..N : IsOkSuccess(outcome[i])) =>
        /\ ret = ChainResult(ResultsUpTo(N), TRUE, None)
        /\ rbLog = <<>>

C4_Witness ==
    /\ Sequential /\ pc = "done" /\ N = 3 /\ rollback_on_error
    /\ \A i \in 1..N : IsOkSuccess(outcome[i]) /\ commands[i].supports_rollback
    /\ ret.tag = "Ok" /\ Len(ret.results) = 3

\* C5: in a Sequential chain, when execute() of command k returns an
\* execution error, commands k+1..N are never executed, the rollback routine
\* is applied to commands 1..k-1 in reverse order when rollback-on-error is
\* set (not at all otherwise), and only then execute() returns that same
\* error instead of a ChainResult.
C5_SeqExecutionError ==
    \A k \in 1..N :
        (Sequential /\ IsError(outcome[k])) =>
            /\ \A j \in (k + 1)..N : status[j] = "idle" /\ outcome[j] = Pending
            /\ executed_commands = [i \in 1..(k - 1) |-> i]
            /\ IsPrefix(rbLog, RevSupporting(k))
            /\ ret.tag # "None" =>
                /\ ret = ChainErr(outcome[k].err)
                /\ rbRunning = {}
                /\ rbLog = IF rollback_on_error THEN RevSupporting(k) ELSE <<>>

C5_Witness ==
    /\ Sequential /\ pc = "done" /\ N = 3
    /\ IsError(outcome[2])
    /\ rbLog = <<1>>
    /\ ret.tag = "Err"

----------------------------------------------------------------------------
(* Parallel chains *)

\* C6: in a chain of any effective mode, if execute() of some command
\* returns an execution error, the chain's execute() returns an error and
\* not a ChainResult.
C6_ErrorPropagates ==
    \A k \in 1..N :
        (pc = "done" /\ IsError(outcome[k])) => ret.tag = "Err"

\* C7: in a Parallel chain in which commands failed or errored, the error of
\* the ChainResult is the message of the lowest-indexed failing command of
\* the input list, whatever the completion order.
C7_ParFirstErrorByInputOrder ==
    (Parallel /\ pc = "done" /\ Failing # {}) =>
        /\ ret.tag = "Ok"
        /\ ret.error = MessageOf(outcome[Min(Failing)])

C7_Witness ==
    /\ Parallel /\ pc = "done" /\ Cardinality(Failing) >= 2
    /\ \E p, q \in 1..Len(completed) :
        /\ p < q
        /\ completed[q] = Min(Failing)
        /\ completed[p] \in Failing
    /\ ret.error = MessageOf(outcome[Min(Failing)])

\* C8: in a Parallel chain the results of the ChainResult follow the input
\* order of the commands, whatever the completion order, and each is the
\* result its command returned.
C8_ParResultsInInputOrder ==
    (Parallel /\ ret.tag = "Ok") =>
        /\ \A a, b \in 1..Len(ret.results) :
            a < b => ret.results[a].command_name < ret.results[b].command_name
        /\ \A a \in 1..Len(ret.results) :
            outcome[ret.results[a].command_name] = Ok(ret.results[a])

C8_Witness ==
    /\ Parallel /\ pc = "done" /\ ret.tag = "Ok"
    /\ \E p, q \in 1..Len(completed) :
        /\ p < q
        /\ completed[p] > completed[q]
        /\ outcome[completed[p]].tag = "Ok"
        /\ outcome[completed[q]].tag = "Ok"
    /\ Len(ret.results) >= 2

\* C9: in a Parallel chain execute() returns only after all N commands have
\* been started and have finished, also when a sibling failed or errored
\* first.
C9_ParAllRunToCompletion ==
    (Parallel /\ ret.tag # "None") =>
        \A i \in 1..N : status[i] = "finished" /\ outcome[i] # Pending

C9_Witness ==
    /\ Parallel /\ pc = "done" /\ N = 3
    /\ IsError(outcome[completed[1]])
    /\ \A i \in 1..N : status[i] = "finished"

\* C10: in a Parallel rollback-enabled chain in which a command failed or
\* errored, the commands whose rollback() is invoked are exactly the
\* rollback-supporting commands that completed with success=true.
C10_ParRollbackOnlySuccessful ==
    (Parallel /\ rollback_on_error /\ pc = "done" /\ Failing # {}) =>
        Range(rbLog) =
            { i \in 1..N :
                commands[i].supports_rollback /\ IsOkSuccess(outcome[i]) }


\* C11: in a Parallel rollback-enabled chain that detected a failure, the
\* rollbacks are issued in reverse completion order: of two commands rolled
\* back, the one that finished later is rolled back first.
C11_ParRollbackReverseCompletion ==
    (Parallel /\ rollback_on_error) =>
        \A p, q \in 1..Len(rbLog) :
            p < q => PosIn(completed, rbLog[p]) > PosIn(completed, rbLog[q])

----------------------------------------------------------------------------
(* Rollback failures, mode resolution, empty chains *)

\* The value execute() owes the caller for the failure it detected, computed
\* from what the commands returned.
OriginalFailure ==
    LET k == Min(Failing) IN
    IF execution_mode = "Sequential"
    THEN IF IsFailure(outcome[k])
         THEN ChainResult(ResultsUpTo(k), FALSE, outcome[k].result.error)
         ELSE ChainErr(outcome[k].err)
    ELSE ChainResult(
            [p \in 1..Len(executed_commands) |->
                outcome[executed_commands[p]].result],
            FALSE, MessageOf(outcome[k]))

\* C13: a rollback that fails (success=false or an error) does not stop the
\* rollback pass, the remaining older commands are still rolled back, and
\* execute() returns the ChainResult or the error of the original failure.
C13_RollbackFailureNotPropagated ==
    (pc = "done" /\ rbFailed) =>
        /\ rbLog = SelectSeq(Reverse(executed_commands),
                             LAMBDA i : commands[i].supports_rollback)
        /\ ret = OriginalFailure

C13_Witness ==
    /\ pc = "done" /\ rbFailed /\ Len(rbLog) >= 2
    /\ ret = OriginalFailure

\* C14: an Auto chain executes with the Sequential strategy if at least one
\* member command declares Sequential and with the Parallel strategy
\* otherwise (also with no members); explicit Sequential and Parallel chain
\* modes ignore the hints of the commands.
C14_AutoResolution ==
    pc # "idle" =>
        /\ mode = "Sequential" => execution_mode = "Sequential"
        /\ mode = "Parallel" => execution_mode = "Parallel"
        /\ mode = "Auto" =>
            (execution_mode = "Sequential" <=>
                \E i \in 1..N : commands[i].mode = "Sequential")
        /\ execution_mode = "Sequential" => pc # "par"
        /\ execution_mode = "Parallel" => pc # "seq"

C14_Witness ==
    /\ mode = "Auto" /\ pc = "seq" /\ N = 3
    /\ commands[1].mode = "Parallel"
    /\ commands[2].mode = "Parallel"
    /\ commands[3].mode = "Sequential"
    /\ status[1] = "running"

\* C15: execute() on a chain without commands returns a ChainResult with
\* success=true, no results and no error, in every chain mode and for either
\* value of the rollback flag, and invokes no rollback.
C15_EmptyChain ==
    (N = 0 /\ pc # "idle") =>
        /\ pc \in {"seq", "done"}
        /\ rbLog = <<>>
        /\ pc = "done" => ret = ChainResult(<<>>, TRUE, None)

C15_Witness ==
    /\ N = 0 /\ pc = "done" /\ mode = "Auto" /\ rollback_on_error
    /\ ret.tag = "Ok" /\ ret.success


----------------------------------------------------------------------------
(* Processes of a Sequential chain *)

\* The processes alive: those of the execute() futures in flight, those left
\* behind by a timeout, and those of the rollback() futures in flight.
RunningProcesses ==
    { <<"execute", i>> : i \in { j \in 1..N : status[j] = "running" } }
        \cup { <<"execute", i>> : i \in orphans }
        \cup { <<"rollback", i>> : i \in rbRunning }

\* C12: during execute() of a chain whose effective mode is Sequential no two
\* processes run at the same time: the next command and any rollback start
\* only after the process of the previous command has ended, also when that
\* command ended by timeout.
C12_SeqNoTwoProcesses ==
    Sequential => Cardinality(RunningProcesses) <= 1


----------------------------------------------------------------------------
(* ChainResult *)

\* C16: every ChainResult returned by CommandChain.execute or by
\* CommandExecutor.execute has success=false whenever a CommandResult of its
\* result list has success=false.
C16_MemberFailureFailsChain ==
    ret.tag = "Ok" =>
        ((\E a \in 1..Len(ret.results) : ~ret.results[a].success)
            => ~ret.success)


----------------------------------------------------------------------------
(* CommandResult *)

\* C18: every CommandResult reachable through new, success and failure,
\* applied in any order and any number of times, has no error when its
\* success flag is true.
C18_SuccessHasNoError ==
    cr.success => cr.error = None


----------------------------------------------------------------------------
(* ShellCommand *)

\* C17: execute() of a command that declares a timeout races the process
\* against the timeout: when the timeout elapses before the process
\* completes, execute() returns TimeoutError and no CommandResult; when the
\* process completes first, it returns a CommandResult and no TimeoutError.
C17_TimeoutRace ==
    (op = "execute" /\ spc = "done" /\ sc.timeout_seconds # None) =>
        /\ proc.st \in {"orphaned", "reaped"} => sret = Err(TimeoutError)
        /\ proc.st = "exited" =>
            sret = Ok(ProcessResult(sc.name, proc.status))
        /\ sret = Err(TimeoutError) => proc.st \in {"orphaned", "reaped"}

C17_Witness ==
    /\ op = "execute" /\ spc = "done" /\ sc.timeout_seconds # None
    /\ proc.st = "orphaned"
    /\ sret = Err(TimeoutError)

\* C19: for every ShellCommand reachable through its construction
\* operations, supports_rollback() is true if and only if a rollback
\* template is present.
C19_SupportsRollbackIffTemplate ==
    /\ spc # "off" =>
        (supports_rollback(sc) <=> sc.rollback_command # None)
    /\ run # NoReturn =>
        (supports_rollback(run) <=> run.rollback_command # None)

C19_Witness ==
    /\ spc = "build"
    /\ supports_rollback(sc)
    /\ sc.rollback_command = Some("undo")
    /\ sc.timeout_seconds # None
    /\ sc.variables_file # None

\* C20: rollback() on a command without a rollback template fails with
\* RollbackError without resolving variables and without spawning a process.
C20_RollbackWithoutTemplate ==
    (op = "rollback" /\ sc.rollback_command = None) =>
        /\ spc = "done"
        /\ sret.tag = "Err"
        /\ sret.err.kind = "RollbackError"
        /\ effects = {}
        /\ proc = NoProcess

C20_Witness ==
    /\ op = "rollback" /\ spc = "done"
    /\ sc.rollback_command = None
    /\ sc.variables_file # None
    /\ sret = Err(RollbackError(1))


\* C21: rollback() on a command with a rollback template executes a fresh
\* command whose template is the rollback template and whose working
\* directory, environment variables and variables file are those of the
\* forward command; the forward command itself is left unchanged.
C21_FreshCommand ==
    (op = "rollback" /\ sc.rollback_command # None) =>
        /\ run # NoReturn
        /\ run # sc
        /\ run.command = sc.rollback_command[1]
        /\ run.working_dir = sc.working_dir
        /\ run.env_vars = sc.env_vars
        /\ run.variables_file = sc.variables_file
        /\ spc = "done" => effects # {}

C21_RollbackRunsFreshCommand ==
    /\ []C21_FreshCommand
    /\ [][op' = "rollback" => sc' = sc]_vars

C21_Witness ==
    /\ op = "rollback"
    /\ sc.working_dir # None /\ sc.env_vars # {} /\ sc.variables_file # None
    /\ run # NoReturn
    /\ run.command = "undo"
    /\ proc.st = "running"


----------------------------------------------------------------------------
(* Variable resolution *)

\* The value process_variables handed back, once it returned Ok.
Resolved == ppc = "done" /\ pret.tag = "Ok"

\* s holds t as a substring.
Contains(s, t) ==
    \E i \in 1..(Len(s) + 1) :
        i + Len(t) - 1 <= Len(s) /\ SubSeq(s, i, i + Len(t) - 1) = t

\* Placeholders of a string by the template syntax: a brace group without
\* inner braces whose name is not empty, `$` or `#` first selecting the
\* class.  class, text and name as in a capture.
PlaceholdersOf(s) ==
    { [class |-> IF s[i + 1] = "$" THEN "env"
                 ELSE IF s[i + 1] = "#" THEN "file" ELSE "interactive",
       text |-> SubSeq(s, i, j),
       name |-> SubSeq(s, IF s[i + 1] \in {"$", "#"} THEN i + 2 ELSE i + 1,
                       j - 1)] :
        <<i, j>> \in { ij \in (1..Len(s)) \X (1..Len(s)) :
            /\ ij[1] + 1 < ij[2]
            /\ s[ij[1]] = "{"
            /\ s[ij[2]] = "}"
            /\ \A k \in (ij[1] + 1)..(ij[2] - 1) : s[k] \notin {"{", "}"}
            /\ s[ij[1] + 1] \in {"$", "#"} => ij[1] + 2 < ij[2] } }

\* The variables file is declared and its object holds `name`.
InFile(name) ==
    variables_file # None /\ vfile.kind = "object" /\ name \in DOMAIN vfile.vars

\* The source the placeholder class of e selects, and its value.
SourceByClass(e) ==
    CASE e.cap.class = "env" ->
            IF env_var(e.cap.name) # None
            THEN e.source = "env" /\ e.value = env_var(e.cap.name)[1]
            ELSE e.source = "prompt"
      [] e.cap.class = "file" ->
            IF InFile(e.cap.name)
            THEN e.source = "file" /\ e.value = vfile.vars[e.cap.name]
            ELSE e.source = "prompt"
      [] OTHER -> e.source = "prompt"

\* C22: resolution picks the source by placeholder class: {$NAME} takes the
\* environment value without prompting when NAME is set and a prompted
\* value otherwise; {#NAME} takes the file's value without prompting when a
\* file is declared and holds NAME and a prompted value otherwise; {NAME}
\* always takes a prompted value.  Every placeholder of the template is
\* handled, and a template with a single placeholder resolves to the
\* template with that placeholder replaced by the value of its source.
C22_SourceByPlaceholderClass ==
    /\ \A k \in 1..Len(events) : SourceByClass(events[k])
    /\ Resolved =>
        /\ \A ph \in PlaceholdersOf(cmd) :
            \E k \in 1..Len(events) : events[k].cap = ph
        /\ (Cardinality(PlaceholdersOf(cmd)) = 1 /\ Len(events) = 1) =>
            pret.result = replace(cmd, events[1].cap.text, events[1].value)

C22_Witness ==
    /\ Resolved
    /\ \E k \in 1..Len(events) :
        events[k].cap.class = "env" /\ events[k].source = "env"
    /\ \E k \in 1..Len(events) :
        events[k].cap.class = "file" /\ events[k].source = "prompt"
    /\ cmd = <<"{", "$", "A", "}", "{", "#", "A", "}">>
    /\ pret.result = <<"v", "p">>

\* C23: a value substituted by an earlier pass is never re-expanded by a
\* later pass: placeholder text inside a substituted value causes no
\* environment lookup and no prompt (every lookup and prompt is for a
\* placeholder of the template) and appears verbatim in the resolved string.
C23_NoReExpansion ==
    Resolved =>
        \A k \in 1..Len(events) :
            /\ events[k].cap \in PlaceholdersOf(cmd)
            /\ (/\ PlaceholdersOf(events[k].value) # {}
                /\ Contains(events[k].before, events[k].cap.text))
                => Contains(pret.result, events[k].value)

\* The variables file, when declared, is readable and holds JSON.
FileUsable == variables_file # None => vfile.kind = "object"

C25_BadFileIsParseError ==
    (ppc = "done" /\ ~FileUsable) =>
        /\ pret.tag = "Err"
        /\ pret.err.kind = "ParseError"
        /\ events = <<>>


----------------------------------------------------------------------------
(* CompositeCommand *)

\* Children whose execute() returned a failed result or an error.
FailingChildren ==
    { i \in 1..NC : coutcome[i] # Pending /\ ~IsOkSuccess(coutcome[i]) }

\* The error text and the exit code child i failed with.
ChildMessage(i) ==
    IF coutcome[i].tag = "Ok" THEN coutcome[i].result.error[1]
    ELSE to_string(coutcome[i].err)

ChildExitCode(i) ==
    IF coutcome[i].tag = "Ok" THEN coutcome[i].result.exit_code ELSE None

\* C26: a sequential CompositeCommand executes its children in declaration
\* order, one at a time, and stops at the first child that fails or errors:
\* later children are never executed, and the result is a failure naming
\* that child, carrying its exit code when it has one, with no output of the
\* earlier successful children; when all children succeed the result is a
\* success.
C26_CompositeSequential ==
    (cop = "execute" /\ composite.mode = "Sequential") =>
        /\ ccalls = [k \in 1..Len(ccalls) |-> k]
        /\ Cardinality(crunning) <= 1
        /\ \A i \in FailingChildren : i = Len(ccalls) /\ crunning = {}
        /\ cpc = "done" =>
            /\ cret.tag = "Ok"
            /\ IF FailingChildren = {}
               THEN /\ cret.result.success
                    /\ Len(ccalls) = NC
               ELSE LET f == Len(ccalls)
                    IN  /\ ~cret.result.success
                        /\ cret.result.error # None
                        /\ cret.result.error[1][2] = composite.commands[f].name
                        /\ cret.result.error[1][3] = ChildMessage(f)
                        /\ cret.result.exit_code = ChildExitCode(f)
                        /\ cret.result.output = <<>>
                        /\ \A i \in (f + 1)..NC : coutcome[i] = Pending

C26_Witness ==
    /\ cop = "execute" /\ composite.mode = "Sequential" /\ cpc = "done"
    /\ NC = 3
    /\ ccalls = <<1, 2>>
    /\ IsOkSuccess(coutcome[1])
    /\ ~cret.result.success
    /\ cret.result.exit_code = Some(2)

\* C27: a parallel CompositeCommand runs every child to completion
\* regardless of sibling failures and reports failure iff at least one child
\* failed or errored; the message and the exit code it surfaces are those of
\* the first failing child by declaration order, for every completion order.
C27_CompositeParallel ==
    (cop = "execute" /\ composite.mode = "Parallel" /\ cpc = "done") =>
        /\ \A i \in 1..NC : coutcome[i] # Pending
        /\ Len(ccompleted) = NC
        /\ cret.tag = "Ok"
        /\ cret.result.success <=> FailingChildren = {}
        /\ FailingChildren # {} =>
            LET f == Min(FailingChildren)
            IN  /\ cret.result.error =
                    Some(<<"some subcommands failed", ChildMessage(f)>>)
                /\ cret.result.exit_code = ChildExitCode(f)

C27_Witness ==
    /\ cop = "execute" /\ composite.mode = "Parallel" /\ cpc = "done"
    /\ NC = 3
    /\ FailingChildren = {2, 3}
    /\ ccompleted = <<3, 1, 2>>
    /\ cret.result.exit_code = Some(2)

\* Children that declare rollback support, last declared first.
RollbackTargets ==
    SelectSeq(Reverse([k \in 1..NC |-> k]),
              LAMBDA i : command_supports_rollback(composite.commands[i]))

\* C28: rollback() invokes rollback on exactly the children that declare
\* rollback support, in reverse declaration order, one at a time, whether
\* or not a child was executed or succeeded, and goes on after a child's
\* rollback fails.
C28_CompositeRollback ==
    cop = "rollback" =>
        /\ IsPrefix(ccalls, RollbackTargets)
        /\ Cardinality(crunning) <= 1
        /\ cpc = "done" =>
            /\ ccalls = RollbackTargets
            /\ cret.tag = "Ok"
            /\ Len(all_output) = NC

C28_Witness ==
    /\ cop = "rollback" /\ cpc = "done"
    /\ ccalls = <<3, 1>>
    /\ coutcome[3] = Pending
    /\ coutcome[1] # Pending /\ ~IsOkSuccess(coutcome[1])
    /\ all_output[1] = << <<3>>, <<"error", to_string(RollbackError(3))>> >>


\* C29: after any sequence of add_command calls, supports_rollback() of a
\* CompositeCommand is true if and only if supports_rollback() of at least
\* one child is true (false for an empty composite).
C29_CompositeSupportsRollback ==
    composite # NoReturn =>
        /\ command_supports_rollback(composite) <=>
            \E k \in 1..NC : command_supports_rollback(composite.commands[k])
        /\ NC = 0 => ~command_supports_rollback(composite)
        /\ \A k \in 1..NC :
            ~IsComposite(composite.commands[k]) =>
                (supports_rollback(composite.commands[k])
                    => command_supports_rollback(composite))

C29_Witness ==
    /\ NC = 3
    /\ IsComposite(composite.commands[1])
    /\ ~command_supports_rollback(composite.commands[1])
    /\ ~command_supports_rollback(composite.commands[2])
    /\ IsComposite(composite.commands[3])
    /\ command_supports_rollback(composite.commands[3])
    /\ command_supports_rollback(composite)

----------------------------------------------------------------------------
(* Visitor *)

\* The commands of a tree in depth-first pre-order.
RECURSIVE PreOrder(_)
RECURSIVE PreOrderAll(_)
PreOrder(command) ==
    <<command>> \o
    (IF IsComposite(command) THEN PreOrderAll(command.commands) ELSE <<>>)

PreOrderAll(cs) ==
    IF cs = <<>> THEN <<>> ELSE PreOrder(Head(cs)) \o PreOrderAll(Tail(cs))

\* C30: accept(visitor) on a command tree calls the visitor exactly once for
\* every command of the tree, with the method of the command's variant, in
\* depth-first pre-order: a composite before each of its children, children
\* in declaration order.
C30_AcceptPreOrder ==
    cop = "accept" =>
        LET order == PreOrder(composite)
        IN  /\ Len(visits) <= Len(order)
            /\ \A k \in 1..Len(visits) :
                /\ visits[k].command = order[k]
                /\ visits[k].method =
                    IF IsComposite(order[k]) THEN "visit_composite_command"
                    ELSE "visit_shell_command"
            /\ cpc = "done" => Len(visits) = Len(order)
            /\ \A j, k \in 1..Len(order) : order[j] = order[k] => j = k

C30_Witness ==
    /\ cop = "accept" /\ cpc = "done"
    /\ NC = 2
    /\ IsComposite(composite.commands[1])
    /\ Len(composite.commands[1].commands) = 2
    /\ ~IsComposite(composite.commands[2])
    /\ Len(visits) = 5
    /\ visits[5].command = composite.commands[2]


----------------------------------------------------------------------------
(* Repeated execute() *)

\* What holds of a call of execute() that is not the first one.
C31_FreshCall ==
    calls >= 1 =>
        /\ Len(results) <= N
        /\ Len(executed_commands) <= N
        /\ Len(rbLog) <= N
        /\ (Sequential /\ pc = "seq") => results = ResultsUpTo(idx - 1)
        /\ (pc = "done" /\ ret.tag = "Ok") => Len(ret.results) <= N
        /\ (pc = "done" /\ \A i \in 1..N : IsOkSuccess(outcome[i])) =>
            /\ ret = ChainResult(ResultsUpTo(N), TRUE, None)
            /\ rbLog = <<>>

\* C31: execute() keeps no state between calls: it leaves the command
\* list, the mode and the rollback flag of the chain unchanged, and a second
\* execute() starts again from the first command with a fresh result list,
\* whatever the previous call returned.
C31_NoStateBetweenCalls ==
    /\ []C31_FreshCall
    /\ [][/\ commands' = commands
          /\ mode' = mode
          /\ rollback_on_error' = rollback_on_error
          /\ calls' # calls =>
                idx' = 1 /\ results' = <<>> /\ executed_commands' = <<>>]_vars

C31_Witness ==
    /\ calls = 1 /\ pc = "done" /\ N = 2
    /\ prev.tag = "Ok" /\ ~prev.success /\ Len(prev.results) = 1
    /\ rollback_on_error
    /\ \A i \in 1..N : IsOkSuccess(outcome[i])
    /\ ret = ChainResult(ResultsUpTo(2), TRUE, None)


----------------------------------------------------------------------------
(* ShellCommand::execute: the result of a completed process *)

\* C32: when the process of a ShellCommand completes, exit status 0 yields a
\* CommandResult with success=true, the captured stdout and no error; any
\* other exit yields success=false with the exit code and an error equal to
\* the captured stderr or, when stderr is empty, a synthesized message
\* naming the exit code.
C32_ResultOfExitStatus ==
    (spc = "done" /\ proc.st = "exited" /\ sret.tag = "Ok") =>
        LET r == sret.result
            st == proc.status
        IN  IF st.code = Some(0)
            THEN r.success /\ r.output = st.stdout /\ r.error = None
            ELSE /\ ~r.success
                 /\ r.exit_code = st.code
                 /\ st.stderr # <<>> => r.error = Some(st.stderr)
                 /\ st.stderr = <<>> =>
                    /\ r.error # None
                    /\ r.error[1] # <<>>
                    /\ r.error[1][1] = "exit code"
                    /\ st.code # None => r.error[1][2] = st.code[1]

C32_Witness ==
    /\ op = "execute" /\ spc = "done" /\ proc.st = "exited"
    /\ proc.status.code = Some(1) /\ proc.status.stderr = <<>>
    /\ sret.tag = "Ok"
    /\ sret.result.error = Some(<<"exit code", 1>>)
    /\ sret.result.exit_code = Some(1)


----------------------------------------------------------------------------
(* Variable file missing at execution time *)

\* C33: when the declared variables file no longer exists at execution
\* time, a {#NAME} placeholder of the template is resolved by a prompt for
\* NAME and the resolution succeeds (the command is then executed).
C33_MissingFileFallsBackToPrompt ==
    (/\ ppc = "done"
     /\ variables_file # None
     /\ vfile.kind = "unreadable") =>
        /\ pret.tag = "Ok"
        /\ \A ph \in PlaceholdersOf(cmd) :
            ph.class = "file" =>
                \E k \in 1..Len(events) :
                    events[k].cap = ph /\ events[k].source = "prompt"


----------------------------------------------------------------------------
(* A CompositeCommand as member of a chain *)

\* Children whose execute() returned an execution error.
ErroredChildren == { i \in 1..NC : IsError(coutcome[i]) }

----------------------------------------------------------------------------
(* Results, rollbacks and scheduling of a chain *)

\* The commands whose execute() returned an execution error.
Errored == { i \in 1..N : IsError(outcome[i]) }

\* C35: in a Parallel chain a command whose execute() returned an execution
\* error has no entry in ChainResult.results: the list holds exactly one
\* entry for each command that returned a CommandResult, so its length is N
\* minus the number of errored commands, while success is false and the
\* error message is set.
C35_ParErroredHaveNoResult ==
    (Parallel /\ pc = "done" /\ Errored # {}) =>
        /\ ret.tag = "Ok"
        /\ Len(ret.results) = N - Cardinality(Errored)
        /\ { ret.results[a].command_name : a \in 1..Len(ret.results) } =
            (1..N) \ Errored
        /\ \A a, b \in 1..Len(ret.results) :
            ret.results[a].command_name = ret.results[b].command_name
                => a = b
        /\ ~ret.success
        /\ ret.error # None

C35_Witness ==
    /\ Parallel /\ pc = "done" /\ N = 3
    /\ Cardinality(Errored) = 2
    /\ ret.tag = "Ok"
    /\ Len(ret.results) = 1
    /\ ~ret.success


\* No element occurs twice in the sequence s.
NoDuplicates(s) == \A a, b \in 1..Len(s) : s[a] = s[b] => a = b

\* Within one execute() a command that was started is not started again.
StartedOnce ==
    \A i \in 1..N :
        /\ status[i] # "idle" => status'[i] # "idle"
        /\ status[i] = "finished" =>
            /\ status'[i] = "finished"
            /\ outcome'[i] = outcome[i]

\* C36: a chain invokes no rollback() when rollback-on-error is false, nor
\* when every command succeeded, and never on a command whose
\* supports_rollback() is false; within one execute() each command is
\* executed at most once and rolled back at most once.
C36_RollbackOnlyWhenDue ==
    /\ [](/\ ~rollback_on_error => rbLog = <<>> /\ rbRunning = {}
          /\ Failing = {} => rbLog = <<>> /\ rbRunning = {}
          /\ \A p \in 1..Len(rbLog) : commands[rbLog[p]].supports_rollback
          /\ NoDuplicates(rbLog)
          /\ NoDuplicates(completed))
    /\ [][StartedOnce]_vars

C36_Witness ==
    /\ pc = "done" /\ N = 3
    /\ rollback_on_error
    /\ commands[1].supports_rollback
    /\ ~commands[2].supports_rollback
    /\ IsOkSuccess(outcome[1]) /\ IsOkSuccess(outcome[2])
    /\ IsFailure(outcome[3])
    /\ rbLog = <<1>>
    /\ NoDuplicates(completed) /\ Len(completed) = 3


\* C37: in a Parallel chain no rollback starts while a forward command is
\* in flight: a rollback is invoked only after all N execute() calls have
\* returned, and the rollbacks run one after another, never two at a time.
C37_ParRollbackAfterAllFinished ==
    Parallel =>
        /\ (rbLog # <<>> \/ rbRunning # {} \/ pc = "rollback") =>
            \A i \in 1..N : status[i] = "finished" /\ outcome[i] # Pending
        /\ Cardinality(rbRunning) <= 1
        /\ rbRunning # {} => rbRunning = {rbLog[Len(rbLog)]}

C37_Witness ==
    /\ Parallel /\ N = 3
    /\ Len(rbLog) = 2
    /\ rbRunning = {rbLog[2]}
    /\ completed[3] = rbLog[2]
    /\ \A i \in 1..N : status[i] = "finished"


\* A timed forward command with a rollback, as rollback() sees it.
TimedCommands ==
    { with_timeout(with_rollback(ShellCommand_new(<<"c">>, "do"), t), s) :
        t \in RollbackTemplates, s \in TimeoutValues }

\* C38: under fair scheduling execute() of a chain eventually returns, in
\* every mode, with or without rollback, when no resolution waits for a
\* prompt, every forward process exits or its command declares a timeout,
\* and every rollback process exits; the command rollback() builds carries
\* no timeout even when the forward command declares one.
C38_ExecuteReturns ==
    /\ [](pc \in {"seq", "par", "rollback"} => <>(pc = "done"))
    /\ [](\A self \in TimedCommands :
            /\ self.timeout_seconds # None
            /\ RollbackCommandOf(self, self.rollback_command[1])
                    .timeout_seconds = None)

C38_Witness ==
    /\ pc = "done"
    /\ N = 1
    /\ rollback_on_error
    /\ timeout_seconds[1]
    /\ outcome[1] = Err(TimeoutError)
    /\ orphans = {1}
    /\ rbRunning = {}


----------------------------------------------------------------------------
(* Rollback of a CompositeCommand *)

\* The notes rollback_commands recorded whose text starts with `head`.
RollbackNotes(head) ==
    { k \in 1..Len(all_output) : all_output[k][2][1] = head }

\* C39: rollback() of a CompositeCommand always returns a CommandResult
\* with success=true and never an error, whatever the child rollbacks
\* returned (failed, errored) or whether they are supported, so the chain
\* that rolls the composite back takes the arm of a successful rollback.
C39_CompositeRollbackSucceeds ==
    (cop = "rollback" /\ cpc = "done") =>
        /\ cret.tag = "Ok"
        /\ cret.result.success
        /\ cret.result.error = None
        /\ cret.result.output = all_output
        /\ Len(all_output) = NC
        /\ RollbackArm(cret) = "ok"

C39_Witness ==
    /\ cop = "rollback" /\ cpc = "done"
    /\ NC = 3
    /\ RollbackNotes("not supported") # {}
    /\ RollbackNotes("error") # {}
    /\ RollbackNotes("stderr") # {}
    /\ cret.tag = "Ok"
    /\ cret.result.success

====
